---- MODULE Spec2Model ----
(***************************************************************************)
(* The conversation loop of DevPilotAgent (src/src/core/agent.ts): the     *)
(* transcript, one user turn after the other, the tool-call retry loop     *)
(* with its self-correction requests, and the bounded window sent to the   *)
(* model endpoint.  One action per stretch of code between two awaits.     *)
(*                                                                         *)
(* Texts are sequences of tokens (words); String.includes is the           *)
(* contiguous-subsequence test on tokens and toLowerCase maps each token.  *)
(***************************************************************************)
EXTENDS Integers, Sequences, FiniteSets, TLC

\* ------------------------------------------------------------------ bounds
\* Spec: user turns of a session, and tool calls the model issues over a
\* session in its main responses
MaxTurns == 2
MaxToolCalls == 2
\* SpecWindow (long transcripts, few tool calls): the same two
MaxTurnsWindow == 6
MaxToolCallsWindow == 1
\* failing invocations of registered tools over a session
MaxFail == 3
\* tool calls in one model response
MaxCallsPerResponse == 2
\* tool calls naming an unregistered tool over a session
MaxUnknownCalls == 1
\* failed client.chat calls over a session
MaxTransportFail == 1
\* self-correction responses that carry a tool call, over a session
MaxCorrectionCalls == 1
\* SpecStream: lines and bytes of a streamed answer, and network chunks it
\* arrives in
MaxLines == 3
MaxBytes == 8
MaxChunks == 3
\* SpecChunked: deltas of an answer in the chunked tool-call protocol
MaxDeltas == 3
\* SpecEdit: characters of the file edit_file is called on, and of old_string
MaxContent == 4
MaxOldString == 3
\* SpecApi (the public methods called from outside): user turns, tool calls
\* of main responses, and sendMessage calls
MaxTurnsApi == 1
MaxToolCallsApi == 1
MaxSends == 1

\* ------------------------------------------------------- program constants
maxAttempts == 3
maxMessages == 11
recentCount == 10
\* milliseconds the post of chatStream may take (0 would mean no limit)
streamTimeout == 60000

\* ------------------------------------------------------------------- texts
\* String.prototype.toLowerCase, token by token
LowerToken(t) ==
    CASE t = "File" -> "file"
      [] t = "Path" -> "path"
      [] t = "Tool" -> "tool"
      [] t = "Permission" -> "permission"
      [] t = "Command" -> "command"
      [] t = "Parent" -> "parent"
      [] t = "Search" -> "search"
      [] t = "The" -> "the"
      [] t = "No" -> "no"
      [] OTHER -> t

toLowerCase(s) == [i \in 1..Len(s) |-> LowerToken(s[i])]

\* String.prototype.trim; " " stands for any white space character
RECURSIVE trim(_)
trim(s) ==
    IF s = <<>> THEN s
    ELSE IF Head(s) = " " THEN trim(Tail(s))
    ELSE IF s[Len(s)] = " " THEN trim(SubSeq(s, 1, Len(s) - 1))
    ELSE s

\* String.prototype.includes
includes(s, sub) ==
    \E i \in 0..(Len(s) - Len(sub)) :
        \A j \in 1..Len(sub) : s[i + j] = sub[j]

\* ---------------------------------------------------------------- registry
\* this.tools, in constructor order
tools == <<"read_file", "list_files", "bash", "edit_file", "code_search">>

\* this.tools.find(t => t.name === name)
ToolRegistered(name) == \E i \in 1..Len(tools) : tools[i] = name

\* names the model may put into a function call: registered or not
ModelToolNames == {"read_file", "no_such_tool"}

\* arguments of a function call (one path)
ModelArgs == {"p"}

\* error texts a registered tool's function may throw (file-reader.ts)
ErrFileNotFound == <<"File", "not", "found", ":", "p">>
ErrNotAFile == <<"Path", "is", "not", "a", "file", ":", "p">>
ToolErrors == {ErrFileNotFound, ErrNotAFile}

\* text a tool returns on success
ToolOutputs == {<<"contents">>}

\* executeTool's error for an unregistered name
ToolNotFoundError(name) == <<"Tool", name, "not", "found">>

\* texts of the model
ResponseTexts == {<<"answer">>}
UserInputs == {<<"hi">>}

\* getSystemPrompt(this.tools.map(t => t.name))
SystemPrompt == <<"SYSTEM">> \o tools

\* ---------------------------------------------------------------- messages
SystemMessage == [role |-> "system", content |-> SystemPrompt]

UserMessage(text) == [role |-> "user", content |-> text]

\* 'call_' + Date.now() + '_' + Math.random()...: the n-th id generated in
\* the session; time plus entropy is taken to never repeat
NewToolCallId(n) == n

\* one ToolCall built by parseGeminiResponse from a functionCall part
ToolCall(id, fc) ==
    [id |-> id, type |-> "function",
     function |-> [name |-> fc.name, arguments |-> fc.args]]

\* parts of a candidate's content on the wire
TextPart(text) == [text |-> text]
FunctionCallPart(fc) == [functionCall |-> fc]
IsTextPart(part) == "text" \in DOMAIN part
IsFunctionCallPart(part) == "functionCall" \in DOMAIN part

\* response.data of a well-formed answer: one candidate whose content has
\* the parts `parts`
WireData(parts) ==
    [status |-> 200, candidates |-> <<[index |-> 0, content |-> [parts |-> parts]]>>]

\* the answer with one text part followed by the function-call parts `fcs`
TextThenCalls(text, fcs) ==
    WireData(<<TextPart(text)>> \o [i \in 1..Len(fcs) |-> FunctionCallPart(fcs[i])])

\* the places where parseGeminiResponse reads a property of undefined:
\* response.candidates[0], candidate.content, candidate.content.parts[0]
ParseThrows(data) ==
    \/ "candidates" \notin DOMAIN data
    \/ Len(data.candidates) = 0
    \/ "content" \notin DOMAIN data.candidates[1]
    \/ "parts" \notin DOMAIN data.candidates[1].content

\* the text of that TypeError
TypeErrorText == <<"Cannot", "read", "properties", "of", "undefined">>

\* parseGeminiResponse on response.data that does not make it throw:
\* content is the text of parts[0] (or ''), one ToolCall per functionCall
\* part in order, then one for a functionCall at the candidate's content;
\* toolCalls is set only when there is one
parseGeminiResponse(data, firstId) ==
    LET candidate == data.candidates[1]
        parts == candidate.content.parts
        content == IF Len(parts) > 0 /\ IsTextPart(parts[1]) THEN parts[1].text ELSE <<>>
        fparts == SelectSeq(parts, IsFunctionCallPart)
        fromParts ==
            [i \in 1..Len(fparts) |->
                ToolCall(NewToolCallId(firstId + i - 1), fparts[i].functionCall)]
        toolCallsParsed ==
            IF "functionCall" \in DOMAIN candidate.content
            THEN Append(fromParts,
                        ToolCall(NewToolCallId(firstId + Len(fparts)),
                                 candidate.content.functionCall))
            ELSE fromParts
    IN  IF Len(toolCallsParsed) > 0
        THEN [role |-> "assistant", content |-> content, toolCalls |-> toolCallsParsed]
        ELSE [role |-> "assistant", content |-> content]

HasToolCalls(m) == "toolCalls" \in DOMAIN m /\ Len(m.toolCalls) > 0
HasToolResults(m) == "toolResults" \in DOMAIN m

NoToolCalls_textEndsTurn(response) == response.content # <<>>

\* the test that ends the turn: !response.toolCalls || length === 0
NoToolCalls(response) == ~HasToolCalls(response)

\* function-call parts a wire response may carry
FunctionCalls == [name : ModelToolNames, args : ModelArgs]
FunctionCallSeqs ==
    UNION {[1..n -> FunctionCalls] : n \in 0..MaxCallsPerResponse}

\* the function call of a self-correction response, if it has one
CorrectionCalls == {<<>>, <<[name |-> "read_file", args |-> "q"]>>}

\* ------------------------------------------------------------ pure helpers
getErrorContext_noLowerCase(error, toolCall) ==
    IF includes(error, <<"file", "not", "found">>)
    THEN <<"The file path may be incorrect. Try using list_files first to see available files.">>
    ELSE <<>>

getErrorContext_anyNotFound(error, toolCall) ==
    LET errorMessage == toLowerCase(error) IN
    IF includes(errorMessage, <<"not", "found">>)
         \/ includes(errorMessage, <<"no", "such", "file">>)
    THEN <<"The file path may be incorrect. Try using list_files first to see available files.">>
    ELSE IF includes(errorMessage, <<"permission", "denied">>)
              \/ includes(errorMessage, <<"access", "denied">>)
    THEN <<"Permission denied. Check file permissions or try a different path.">>
    ELSE IF includes(errorMessage, <<"is", "not", "a", "directory">>)
              \/ includes(errorMessage, <<"not", "a", "directory">>)
    THEN <<"The specified path is not a directory. Use list_files to check the path type.">>
    ELSE <<>>

\* DevPilotAgent.getErrorContext; <<>> stands for null (both are falsy)
getErrorContext(error, toolCall) ==
    LET errorMessage == toLowerCase(error) IN
    IF includes(errorMessage, <<"file", "not", "found">>)
         \/ includes(errorMessage, <<"no", "such", "file">>)
    THEN <<"The file path may be incorrect. Try using list_files first to see available files.">>
    ELSE IF includes(errorMessage, <<"permission", "denied">>)
              \/ includes(errorMessage, <<"access", "denied">>)
    THEN <<"Permission denied. Check file permissions or try a different path.">>
    ELSE IF includes(errorMessage, <<"is", "not", "a", "directory">>)
              \/ includes(errorMessage, <<"not", "a", "directory">>)
    THEN <<"The specified path is not a directory. Use list_files to check the path type.">>
    ELSE IF includes(errorMessage, <<"command", "not", "found">>)
    THEN <<"The command is not available. Check if the required tool is installed.">>
    ELSE IF toolCall.function.name = "code_search"
              /\ includes(errorMessage, <<"no", "matches", "found">>)
    THEN <<"No matches found for the search pattern. Try a different pattern or check the file type.">>
    ELSE IF toolCall.function.name = "edit_file"
              /\ includes(errorMessage, <<"old_str", "not", "found">>)
    THEN <<"The text to replace was not found. Check the exact text and try reading the file first.">>
    ELSE IF toolCall.function.name = "edit_file"
              /\ includes(errorMessage, <<"found", "multiple", "times">>)
    THEN <<"The text appears multiple times. Provide more context to make it unique.">>
    ELSE <<>>

\* Array.prototype.slice(-n)
SliceLast(s, n) ==
    IF Len(s) <= n THEN s ELSE SubSeq(s, Len(s) - n + 1, Len(s))

getLimitedConversation_alwaysPrepends(conv) ==
    IF conv = <<>> THEN conv ELSE <<conv[1]>> \o SliceLast(conv, recentCount)

getLimitedConversation_sliceTooLong(conv) ==
    IF Len(conv) <= maxMessages
    THEN conv
    ELSE <<conv[1]>> \o SliceLast(conv, maxMessages)

getLimitedConversation_keepsTwo(conv) ==
    IF Len(conv) <= 3
    THEN conv
    ELSE <<conv[1]>> \o SliceLast(conv, 2)

\* DevPilotAgent.getLimitedConversation
getLimitedConversation(conv) ==
    IF Len(conv) <= maxMessages
    THEN conv
    ELSE <<conv[1]>> \o SliceLast(conv, recentCount)

executeTool_resultWithoutCallId(toolCall, output) ==
    [tool_call_id |-> NewToolCallId(0), content |-> output]

\* DevPilotAgent.executeTool, the value returned when the tool returns
executeTool(toolCall, output) ==
    [tool_call_id |-> toolCall.id, content |-> output]

FinalFailureResult_notFlagged(toolCall, error) ==
    [tool_call_id |-> toolCall.id,
     content |-> <<"Error", "after", ToString(maxAttempts), "attempts", ":">> \o error]

\* the result built in the catch block when attempts === maxAttempts
FinalFailureResult(toolCall, error) ==
    [tool_call_id |-> toolCall.id,
     content |-> <<"Error", "after", ToString(maxAttempts), "attempts", ":">> \o error,
     is_error |-> TRUE]

\* the synthetic message pushed before a self-correction request
HintMessage(error, errorContext) ==
    [role |-> "assistant",
     content |-> <<"Tool", "execution", "failed", ":">> \o error \o <<".">> \o errorContext]

ToolResultsMessage_withoutResults(results) ==
    [role |-> "assistant", content |-> <<>>]

\* the message pushed after the for loop
ToolResultsMessage(results) ==
    [role |-> "assistant", content |-> <<>>, toolResults |-> results]

\* -------------------------------------------------------------------- state
VARIABLES
    conversation,   \* this.conversation
    pc,             \* where the agent is: "new", "idle", "AWAITING_MODEL",
                    \* "EXECUTING_TOOLS", "AWAITING_CORRECTION", "DONE", "ABORTED"
    toolCalls,      \* response.toolCalls of the current loop iteration
    idx,            \* position of the for loop in toolCalls (1-based)
    attempts,       \* attempts of the while loop for toolCalls[idx]
    toolResults,    \* the toolResults array of the current loop iteration
    correction,     \* correctionResponse.toolCalls while the catch block's
                    \* response is the latest thing received
    lastRequest,    \* the messages passed to the latest client.chat call
    calls,          \* history per issued tool call id (see NewCall)
    nextId,         \* number of tool-call ids generated so far, plus 1
    turns,          \* user turns started
    nFail,          \* failed invocations of registered tools
    nTransportFail, \* failed client.chat calls
    shouldExit,     \* this.shouldExit
    stream,         \* the running chatStream call: the chunks still to come
                    \* and its locals (see NewStream)
    returned,       \* what the latest call of a method gave its caller (and
                    \* what the endpoint had answered), while no later call
                    \* has begun
    nSend,          \* sendMessage calls
    file,           \* the file at fullPath of an edit_file call: its content,
                    \* or NoFile while it does not exist
    console         \* what console.log printed of the session's end

\* what `file` holds while fs.existsSync(fullPath) is false: no content
NoFile == <<"ENOENT">>

vars == <<conversation, pc, toolCalls, idx, attempts, toolResults, correction,
          lastRequest, calls, nextId, turns, nFail, nTransportFail,
          shouldExit, stream, returned, nSend, file, console>>

\* a chatStream call on an answer of the bytes `bytes` that arrive as
\* `chunks`: the generator's locals, and what it parsed and yielded so far
NewStream(bytes, chunks) ==
    [bytes |-> bytes, network |-> chunks, chunks |-> chunks, buffer |-> <<>>,
     currentContent |-> <<>>, currentToolCalls |-> <<>>, parsed |-> <<>>,
     yielded |-> <<>>]

\* history of one tool call: its position in its response, the error texts
\* of its failed attempts, whether an attempt succeeded, the hint messages
\* pushed and self-correction requests sent for it, and, when its round was
\* cut short by a failed request, the position the for loop was at (else 0)
NewCall(position) ==
    [pos |-> position, errs |-> <<>>, ok |-> FALSE, hints |-> 0, corr |-> 0, lost |-> 0]

Init ==
    /\ conversation = <<>>
    /\ pc = "new"
    /\ toolCalls = <<>>
    /\ idx = 0
    /\ attempts = 0
    /\ toolResults = <<>>
    /\ correction = <<>>
    /\ lastRequest = <<>>
    /\ calls = <<>>
    /\ nextId = 1
    /\ turns = 0
    /\ nFail = 0
    /\ nTransportFail = 0
    /\ shouldExit = FALSE
    /\ stream = NewStream(<<>>, <<>>)
    /\ returned = [op |-> "none"]
    /\ nSend = 0
    /\ file = NoFile
    /\ console = <<>>

\* the state only the public methods besides startChat touch
Api == <<returned, nSend>>

LoopLocals == <<toolCalls, idx, attempts, toolResults, correction>>
History == <<calls, nextId, nFail, nTransportFail>>

Ids(tcs) == {tcs[i].id : i \in 1..Len(tcs)}

\* tool calls issued by main responses so far, and the ids generated for
\* the tool calls of self-correction responses
IssuedCalls == DOMAIN calls
CorrectionIds == {NewToolCallId(n) : n \in 1..(nextId - 1)} \ IssuedCalls

BeginTurn_unshift(conv, userInput) ==
    /\ conversation' = <<UserMessage(userInput)>> \o conv
    /\ lastRequest' = getLimitedConversation(conversation')
    /\ pc' = "AWAITING_MODEL"
    /\ turns' = turns + 1
    /\ returned' = [op |-> "none"]

\* processMessage up to its first await: push the user message, cut the
\* window and hand it to client.chat
BeginTurn(conv, userInput) ==
    /\ conversation' = Append(conv, UserMessage(userInput))
    /\ lastRequest' = getLimitedConversation(conversation')
    /\ pc' = "AWAITING_MODEL"
    /\ turns' = turns + 1
    /\ returned' = [op |-> "none"]

\* startChat: push the system message; without piped input the greeting
\* turn starts at once, with piped input the lines are awaited
StartChat ==
    /\ pc = "new"
    /\ \E hasPipedInput \in BOOLEAN :
         IF hasPipedInput
         THEN /\ conversation' = Append(conversation, SystemMessage)
              /\ pc' = "idle"
              /\ returned' = [op |-> "none"]
              /\ UNCHANGED <<lastRequest, turns>>
         ELSE BeginTurn(Append(conversation, SystemMessage), <<"hi">>)
    /\ UNCHANGED <<LoopLocals, History, nSend, shouldExit, stream, file, console>>

\* the session waits for the next line: before its first turn, or after a
\* turn that ended at a response without tool calls or in the catch block
AtPrompt == pc \in {"idle", "DONE", "ABORTED"}

\* processMessage(userInput) called for the next line, after the previous
\* call returned; the interactive loop runs while (!this.shouldExit)
ProcessMessage(maxTurns) ==
    /\ AtPrompt
    /\ ~shouldExit
    /\ turns < maxTurns
    /\ \E userInput \in UserInputs : BeginTurn(conversation, userInput)
    /\ UNCHANGED <<LoopLocals, History, nSend, shouldExit, stream, file, console>>

\* the locals of processMessage's loop go out of scope when it returns
DropLoopLocals ==
    /\ toolCalls' = <<>>
    /\ idx' = 0
    /\ attempts' = 0
    /\ toolResults' = <<>>
    /\ correction' = <<>>

RecordResult_startsNextAtOnce(result) ==
    /\ correction' = <<>>
    /\ IF idx < Len(toolCalls)
       THEN /\ idx' = idx + 1
            /\ attempts' = 1
            /\ pc' = "EXECUTING_TOOLS"
            /\ toolResults' = toolResults
            /\ UNCHANGED <<conversation, lastRequest>>
       ELSE /\ toolResults' = Append(toolResults, result)
            /\ conversation' = Append(conversation, ToolResultsMessage(toolResults'))
            /\ lastRequest' = getLimitedConversation(conversation')
            /\ pc' = "AWAITING_MODEL"
            /\ UNCHANGED <<idx, attempts>>

RecordResult_unshift(result) ==
    LET results == <<result>> \o toolResults IN
    /\ toolResults' = results
    /\ correction' = <<>>
    /\ IF idx < Len(toolCalls)
       THEN /\ idx' = idx + 1
            /\ attempts' = 1
            /\ pc' = "EXECUTING_TOOLS"
            /\ UNCHANGED <<conversation, lastRequest>>
       ELSE /\ conversation' = Append(conversation, ToolResultsMessage(results))
            /\ lastRequest' = getLimitedConversation(conversation')
            /\ pc' = "AWAITING_MODEL"
            /\ UNCHANGED <<idx, attempts>>

\* the end of one pass of the for loop with `result` for toolCalls[idx]:
\* toolResults.push(result), then either the next tool call's first attempt,
\* or, after the last one, push the tool-result message and request the
\* model's next message with the window
RecordResult(result) ==
    LET results == Append(toolResults, result) IN
    /\ toolResults' = results
    /\ correction' = <<>>
    /\ IF idx < Len(toolCalls)
       THEN /\ idx' = idx + 1
            /\ attempts' = 1
            /\ pc' = "EXECUTING_TOOLS"
            /\ UNCHANGED <<conversation, lastRequest>>
       ELSE /\ conversation' = Append(conversation, ToolResultsMessage(results))
            /\ lastRequest' = getLimitedConversation(conversation')
            /\ pc' = "AWAITING_MODEL"
            /\ UNCHANGED <<idx, attempts>>

UnknownCalls(fcs) == Cardinality({i \in 1..Len(fcs) : ~ToolRegistered(fcs[i].name)})

\* tool calls issued so far that name an unregistered tool
UnknownIssued ==
    Cardinality({id \in IssuedCalls :
                   \E k \in 1..Len(conversation) :
                      /\ HasToolCalls(conversation[k])
                      /\ \E i \in 1..Len(conversation[k].toolCalls) :
                            /\ conversation[k].toolCalls[i].id = id
                            /\ ~ToolRegistered(conversation[k].toolCalls[i].function.name)})

\* the main client.chat call returns: push the response; without tool calls
\* the turn is done, else the first tool call's first attempt starts
ModelResponds(maxToolCalls) ==
    /\ pc = "AWAITING_MODEL"
    /\ \E text \in ResponseTexts, fcs \in FunctionCallSeqs :
         LET response == parseGeminiResponse(TextThenCalls(text, fcs), nextId) IN
         /\ Cardinality(IssuedCalls) + Len(fcs) <= maxToolCalls
         /\ UnknownIssued + UnknownCalls(fcs) <= MaxUnknownCalls
         /\ conversation' = Append(conversation, response)
         /\ nextId' = nextId + Len(fcs)
         /\ IF NoToolCalls(response)
            THEN /\ pc' = "DONE"
                 /\ DropLoopLocals
                 /\ UNCHANGED calls
            ELSE /\ toolCalls' = response.toolCalls
                 /\ idx' = 1
                 /\ attempts' = 1
                 /\ toolResults' = <<>>
                 /\ correction' = <<>>
                 /\ calls' = calls @@ [id \in Ids(response.toolCalls) |->
                                          NewCall(id - nextId + 1)]
                 /\ pc' = "EXECUTING_TOOLS"
    /\ UNCHANGED <<lastRequest, turns, nFail, nTransportFail, Api, shouldExit, stream, file, console>>

ModelFails_endsSession ==
    /\ pc = "AWAITING_MODEL"
    /\ nTransportFail < MaxTransportFail
    /\ nTransportFail' = nTransportFail + 1
    /\ pc' = "ENDED"
    /\ DropLoopLocals
    /\ UNCHANGED <<conversation, lastRequest, calls, nextId, nFail, turns, Api, shouldExit, stream, file, console>>

ModelFails_rollsBack ==
    /\ pc = "AWAITING_MODEL"
    /\ nTransportFail < MaxTransportFail
    /\ nTransportFail' = nTransportFail + 1
    /\ pc' = "ABORTED"
    /\ DropLoopLocals
    /\ conversation' = SubSeq(conversation, 1, Len(conversation) - 1)
    /\ UNCHANGED <<lastRequest, calls, nextId, nFail, turns, Api, shouldExit, stream, file, console>>

\* the main client.chat call throws: caught at the end of processMessage
ModelFails ==
    /\ pc = "AWAITING_MODEL"
    /\ nTransportFail < MaxTransportFail
    /\ nTransportFail' = nTransportFail + 1
    /\ pc' = "ABORTED"
    /\ DropLoopLocals
    /\ UNCHANGED <<conversation, lastRequest, calls, nextId, nFail, turns, Api, shouldExit, stream, file, console>>

\* what the function of a tool can return
Returnable(toolCall) == ToolOutputs

\* executeTool returns one of the texts `outputs`
ToolReturnsWith(outputs) ==
    /\ pc = "EXECUTING_TOOLS"
    /\ ToolRegistered(toolCalls[idx].function.name)
    /\ \E output \in outputs :
         RecordResult(executeTool(toolCalls[idx], output))
    /\ calls' = [calls EXCEPT ![toolCalls[idx].id].ok = TRUE]
    /\ UNCHANGED <<toolCalls, nextId, turns, nFail, nTransportFail, Api, shouldExit, stream, file, console>>

ToolReturns_noBreak ==
    /\ pc = "EXECUTING_TOOLS"
    /\ ToolRegistered(toolCalls[idx].function.name)
    /\ \E output \in ToolOutputs :
         IF attempts < maxAttempts
         THEN /\ attempts' = attempts + 1
              /\ correction' = <<>>
              /\ UNCHANGED <<conversation, lastRequest, pc, idx, toolResults>>
         ELSE RecordResult(executeTool(toolCalls[idx], output))
    /\ calls' = [calls EXCEPT ![toolCalls[idx].id].ok = TRUE]
    /\ UNCHANGED <<toolCalls, nextId, turns, nFail, nTransportFail, Api, shouldExit, stream, file, console>>

\* executeTool returns: the tool is registered and its function returned
ToolReturns == ToolReturnsWith(Returnable(toolCalls[idx]))

Throwable_lookupSkipped(toolCall) == ToolErrors

\* what executeTool can throw for a tool call
Throwable(toolCall) ==
    IF ToolRegistered(toolCall.function.name)
    THEN ToolErrors
    ELSE {ToolNotFoundError(toolCall.function.name)}

RetryAfter_alwaysHint(toolCall, error, failed) ==
    LET errorContext == getErrorContext(error, toolCall) IN
    /\ conversation' = Append(conversation, HintMessage(error, errorContext))
    /\ lastRequest' = conversation'
    /\ pc' = "AWAITING_CORRECTION"
    /\ calls' = [calls EXCEPT ![toolCall.id] =
                    [failed EXCEPT !.hints = @ + 1, !.corr = @ + 1]]
    /\ UNCHANGED <<idx, attempts, toolResults, correction>>

\* the catch block before the last attempt: a hint (when there is one) is
\* pushed and the model is asked for a correction with this.conversation,
\* else the next attempt starts at once.  (The while loop is only left by
\* one of its two breaks, both of which set `result`, so the fallback
\* result pushed when `result` is undefined is never built.)
RetryAfter(toolCall, error, failed) ==
    LET errorContext == getErrorContext(error, toolCall) IN
    IF errorContext # <<>>
    THEN /\ conversation' = Append(conversation, HintMessage(error, errorContext))
         /\ lastRequest' = conversation'
         /\ pc' = "AWAITING_CORRECTION"
         /\ calls' = [calls EXCEPT ![toolCall.id] =
                         [failed EXCEPT !.hints = @ + 1, !.corr = @ + 1]]
         /\ UNCHANGED <<idx, attempts, toolResults, correction>>
    ELSE /\ attempts' = attempts + 1
         /\ correction' = <<>>
         /\ calls' = [calls EXCEPT ![toolCall.id] = failed]
         /\ UNCHANGED <<conversation, lastRequest, pc, idx, toolResults>>

\* executeTool throws one of `errors`: on the last attempt the
\* error result is recorded, before it the retry is prepared
ToolThrowsWith(errors) ==
    /\ pc = "EXECUTING_TOOLS"
    /\ LET toolCall == toolCalls[idx]
           registered == ToolRegistered(toolCall.function.name)
       IN
       /\ registered => nFail < MaxFail
       /\ nFail' = IF registered THEN nFail + 1 ELSE nFail
       /\ \E error \in errors :
            LET failed == [calls[toolCall.id] EXCEPT !.errs = Append(@, error)] IN
            IF attempts = maxAttempts
            THEN /\ RecordResult(FinalFailureResult(toolCall, error))
                 /\ calls' = [calls EXCEPT ![toolCall.id] = failed]
            ELSE RetryAfter(toolCall, error, failed)
    /\ UNCHANGED <<toolCalls, nextId, turns, nTransportFail, Api, shouldExit, stream, file, console>>

\* executeTool throws
ToolThrows == ToolThrowsWith(Throwable(toolCalls[idx]))

AfterCorrection_substitute(correctionResponse) ==
    /\ toolCalls' = IF HasToolCalls(correctionResponse)
                    THEN [toolCalls EXCEPT ![idx] = correctionResponse.toolCalls[1]]
                    ELSE toolCalls
    /\ conversation' = conversation

\* what the loop keeps of a self-correction response: nothing but the
\* display of its first tool call; toolCalls[idx] is retried as it is
AfterCorrection(correctionResponse) ==
    /\ toolCalls' = toolCalls
    /\ conversation' = conversation

\* the self-correction client.chat call returns: its first tool call is
\* shown to the operator, and the while loop goes on with toolCalls[idx]
CorrectionResponds ==
    /\ pc = "AWAITING_CORRECTION"
    /\ \E text \in ResponseTexts, fcs \in CorrectionCalls :
         LET correctionResponse == parseGeminiResponse(TextThenCalls(text, fcs), nextId) IN
         /\ Cardinality(CorrectionIds) + Len(fcs) <= MaxCorrectionCalls
         /\ nextId' = nextId + Len(fcs)
         /\ correction' = IF HasToolCalls(correctionResponse)
                          THEN correctionResponse.toolCalls ELSE <<>>
         /\ AfterCorrection(correctionResponse)
    /\ attempts' = attempts + 1
    /\ pc' = "EXECUTING_TOOLS"
    /\ UNCHANGED <<idx, toolResults, lastRequest, calls, turns, nFail, nTransportFail, Api, shouldExit, stream, file, console>>

\* the self-correction client.chat call throws: caught at the end of
\* processMessage, the rest of the for loop is skipped
CorrectionFails ==
    /\ pc = "AWAITING_CORRECTION"
    /\ nTransportFail < MaxTransportFail
    /\ nTransportFail' = nTransportFail + 1
    /\ pc' = "ABORTED"
    /\ calls' = [id \in DOMAIN calls |->
                   IF id \in Ids(toolCalls)
                   THEN [calls[id] EXCEPT !.lost = idx] ELSE calls[id]]
    /\ DropLoopLocals
    /\ UNCHANGED <<conversation, lastRequest, nextId, turns, nFail, Api, shouldExit, stream, file, console>>

Next ==
    \/ StartChat
    \/ ProcessMessage(MaxTurns)
    \/ ModelResponds(MaxToolCalls)
    \/ ModelFails
    \/ ToolReturns
    \/ ToolThrows
    \/ CorrectionResponds
    \/ CorrectionFails

\* sessions of few turns with several tool calls
Spec == Init /\ [][Next]_vars

NextWindow ==
    \/ StartChat
    \/ ProcessMessage(MaxTurnsWindow)
    \/ ModelResponds(MaxToolCallsWindow)
    \/ ModelFails
    \/ ToolReturns
    \/ ToolThrows
    \/ CorrectionResponds
    \/ CorrectionFails

\* sessions long enough for the window to cut the transcript
SpecWindow == Init /\ [][NextWindow]_vars

\* ------------------------------------------------------ the session's end
\* startChat is running: at the prompt or inside a turn
InSession ==
    pc \in {"idle", "DONE", "ABORTED", "AWAITING_MODEL", "EXECUTING_TOOLS",
            "AWAITING_CORRECTION"}

\* console.log of the goodbye message and of the input error
Goodbye == "Thanks for using DevPilot AI!"
InputErrorLine == "Input error"

\* rl.on('close'): the handler of the readline interface's close event
\* prints the goodbye message unless shouldExit is set, and sets it
CloseHandler(printed) ==
    /\ console' = IF ~shouldExit THEN Append(printed, Goodbye) ELSE printed
    /\ shouldExit' = TRUE

\* the line read is exit or quit: the goodbye message is printed and the
\* loop breaks; cleanup then closes the readline interface, which runs
\* the close handler
ExitInput ==
    /\ AtPrompt
    /\ ~shouldExit
    /\ \E userInput \in {<<"exit">>, <<"quit">>} :
         toLowerCase(userInput) \in {<<"exit">>, <<"quit">>}
    /\ pc' = "ENDED"
    /\ CloseHandler(Append(console, Goodbye))
    /\ UNCHANGED <<conversation, LoopLocals, lastRequest, History, turns, returned, nSend, stream, file>>

\* the input stream closes (the close handler sets shouldExit): at the
\* prompt the session is over, inside a turn the turn goes on
InputClosed ==
    /\ InSession
    /\ ~shouldExit
    /\ CloseHandler(console)
    /\ pc' = IF AtPrompt THEN "ENDED" ELSE pc
    /\ UNCHANGED <<conversation, LoopLocals, lastRequest, History, turns, returned, nSend, stream, file>>

\* the turn during which the input closed is over: while (!this.shouldExit)
\* ends the loop
LoopEnds ==
    /\ AtPrompt
    /\ shouldExit
    /\ pc' = "ENDED"
    /\ UNCHANGED <<conversation, LoopLocals, lastRequest, History, turns, shouldExit,
                   returned, nSend, stream, file, console>>

\* lines without a character that is not white space
BlankLines == {<<>>, <<" ">>, <<" ", " ">>}

\* the line read is blank: neither exit nor quit, and nothing is left of
\* it after trim, so the loop continues with the next question (a blank
\* piped line is skipped in the same way)
BlankLine ==
    /\ AtPrompt
    /\ ~shouldExit
    /\ \E userInput \in BlankLines :
         /\ toLowerCase(userInput) \notin {<<"exit">>, <<"quit">>}
         /\ trim(userInput) = <<>>
    /\ UNCHANGED vars

\* errors askQuestion may be rejected with
InputErrors == {"ERR_USE_AFTER_CLOSE", "readline was closed", "other"}

\* the read of a line fails: askQuestion rejects; for a closed readline
\* the loop breaks silently, for any other error it prints 'Input error'
\* and breaks as well; cleanup closes the readline interface, whose close
\* handler sets shouldExit
AskQuestionRejects ==
    /\ AtPrompt
    /\ ~shouldExit
    /\ \E error \in InputErrors :
         IF error \in {"ERR_USE_AFTER_CLOSE", "readline was closed"} \/ shouldExit
         THEN /\ pc' = "ENDED"
              /\ CloseHandler(console)
         ELSE /\ pc' = "ENDED"
              /\ CloseHandler(Append(console, InputErrorLine))
    /\ UNCHANGED <<conversation, LoopLocals, lastRequest, History, turns, returned, nSend, stream, file>>

\* SIGINT or SIGTERM: the handler prints the goodbye message and sets
\* shouldExit; its timer then runs cleanup (the close handler finds
\* shouldExit set) and process.exit(0)
Signal ==
    /\ InSession
    /\ console' = Append(console, Goodbye)
    /\ shouldExit' = TRUE
    /\ pc' = "KILLED"
    /\ DropLoopLocals
    /\ UNCHANGED <<conversation, lastRequest, History, turns, returned, nSend, stream, file>>

NextSession ==
    \/ Next
    \/ ExitInput
    \/ BlankLine
    \/ AskQuestionRejects
    \/ InputClosed
    \/ LoopEnds
    \/ Signal

\* the interactive session up to its end
SpecSession == Init /\ [][NextSession]_vars

\* -------------------------------------------------------------- the wire
\* GeminiClient.convertToGeminiContents: one wire turn per message, with a
\* text part when the content is not empty, then one part per tool call and
\* one per tool result
convertToGeminiContents(messages) ==
    [i \in 1..Len(messages) |->
        LET msg == messages[i]
            textParts == IF msg.content # <<>> THEN <<TextPart(msg.content)>> ELSE <<>>
            callParts ==
                IF HasToolCalls(msg)
                THEN [k \in 1..Len(msg.toolCalls) |->
                        FunctionCallPart([name |-> msg.toolCalls[k].function.name,
                                          args |-> msg.toolCalls[k].function.arguments])]
                ELSE <<>>
            resultParts ==
                IF HasToolResults(msg)
                THEN [k \in 1..Len(msg.toolResults) |->
                        [functionResponse |->
                            [name |-> "function_response",
                             response |-> [name |-> msg.toolResults[k].tool_call_id,
                                           content |-> msg.toolResults[k].content]]]]
                ELSE <<>>
        IN  [role |-> IF msg.role = "assistant" THEN "model" ELSE "user",
             parts |-> textParts \o callParts \o resultParts]]

\* `contents` of the request body of the latest client.chat call
WireRequest == convertToGeminiContents(lastRequest)

\* the parts a candidate's content may carry: none, text parts alone, and
\* function-call parts before, between and after text parts
PartA == TextPart(<<"a">>)
PartB == TextPart(<<"b">>)
PartF == FunctionCallPart([name |-> "read_file", args |-> "p"])
WirePartSeqs ==
    {<<>>, <<PartA>>, <<PartA, PartB>>, <<PartF>>, <<PartF, PartA>>,
     <<PartA, PartF>>, <<PartA, PartF, PartB>>, <<PartF, PartA, PartB>>}

\* response.data of answers that parse: the parts alone, or with a
\* functionCall at the candidate's content as well
WellFormedData ==
    {WireData(parts) : parts \in WirePartSeqs}
      \cup {[status |-> 200,
              candidates |-> <<[index |-> 0,
                                content |-> [parts |-> <<PartA>>,
                                             functionCall |-> [name |-> "read_file",
                                                               args |-> "p"]]]>>]}

\* response.data without candidates, with none, with a candidate without
\* content, and with a content without parts
MalformedData ==
    {[status |-> 200],
     [status |-> 200, candidates |-> <<>>],
     [status |-> 200, candidates |-> <<[index |-> 0]>>],
     [status |-> 200, candidates |-> <<[index |-> 0, content |-> [role |-> "model"]]>>]}

\* what this.client.post settles with: rejected with the endpoint's error
\* message (error.response.data.error.message), rejected without a response
\* (error.message only), or resolved with response.data
UpstreamMessage == <<"quota", "exceeded">>
WireResponses ==
    {[kind |-> "rejected",
      message |-> <<"Request", "failed", "with", "status", "code", "429">>,
      upstream |-> UpstreamMessage],
     [kind |-> "rejected", message |-> <<"Network", "Error">>]}
      \cup {[kind |-> "resolved", data |-> d] : d \in WellFormedData \cup MalformedData}

\* the Error thrown by chat's catch block
ChatError(text) == [ok |-> FALSE, error |-> <<"Gemini", "API", "error", ":">> \o text]

chat_swallowsMalformed(wire, firstId) ==
    IF wire.kind = "rejected"
    THEN ChatError(IF "upstream" \in DOMAIN wire /\ wire.upstream # <<>>
                   THEN wire.upstream ELSE wire.message)
    ELSE IF ParseThrows(wire.data)
    THEN [ok |-> TRUE, message |-> [role |-> "assistant", content |-> <<>>]]
    ELSE [ok |-> TRUE, message |-> parseGeminiResponse(wire.data, firstId)]

\* GeminiClient.chat from the moment the post settles with `wire`: the
\* parsed message, or the error thrown
chat(wire, firstId) ==
    IF wire.kind = "rejected"
    THEN ChatError(IF "upstream" \in DOMAIN wire /\ wire.upstream # <<>>
                   THEN wire.upstream ELSE wire.message)
    ELSE IF ParseThrows(wire.data)
    THEN ChatError(TypeErrorText)
    ELSE [ok |-> TRUE, message |-> parseGeminiResponse(wire.data, firstId)]

\* tool-call ids a message used up
IdsUsed(m) == IF HasToolCalls(m) THEN Len(m.toolCalls) ELSE 0

\* ----------------------------------------------------- the public methods
\* no call of the agent is in progress (startChat, once called, is in
\* progress for the rest of the session)
AtRest == pc = "new"

\* sendMessage up to its await: push the user message, cut the window and
\* hand it to client.chat
SendMessage ==
    /\ AtRest
    /\ nSend < MaxSends
    /\ nSend' = nSend + 1
    /\ \E message \in UserInputs :
         conversation' = Append(conversation, UserMessage(message))
    /\ lastRequest' = getLimitedConversation(conversation')
    /\ pc' = "SENDING"
    /\ returned' = [op |-> "none"]
    /\ UNCHANGED <<LoopLocals, History, turns, shouldExit, stream, file, console>>

\* sendMessage after client.chat returned: push the response and return it
SendResponds ==
    /\ pc = "SENDING"
    /\ \E wire \in WireResponses :
         LET r == chat(wire, nextId) IN
         /\ r.ok
         /\ conversation' = Append(conversation, r.message)
         /\ returned' = [op |-> "sendMessage", wire |-> wire, value |-> r.message]
         /\ nextId' = nextId + IdsUsed(r.message)
    /\ pc' = "new"
    /\ UNCHANGED <<LoopLocals, lastRequest, calls, turns, nFail, nTransportFail, nSend, shouldExit, stream, file, console>>

\* client.chat throws in sendMessage: the error goes to the caller
SendFails ==
    /\ pc = "SENDING"
    /\ nTransportFail < MaxTransportFail
    /\ nTransportFail' = nTransportFail + 1
    /\ \E wire \in WireResponses :
         LET r == chat(wire, nextId) IN
         /\ ~r.ok
         /\ returned' = [op |-> "sendMessage", wire |-> wire, error |-> r.error]
    /\ pc' = "new"
    /\ UNCHANGED <<conversation, LoopLocals, lastRequest, calls, nextId, turns, nFail, nSend, shouldExit, stream, file, console>>

\* getConversation: a copy of the transcript
GetConversation ==
    /\ AtRest
    /\ returned' = [op |-> "getConversation", value |-> conversation]
    /\ UNCHANGED <<conversation, pc, LoopLocals, lastRequest, History, turns, nSend, shouldExit, stream, file, console>>

\* clearConversation: the transcript becomes the system message alone
ClearConversation ==
    /\ AtRest
    /\ conversation' = <<SystemMessage>>
    /\ returned' = [op |-> "none"]
    /\ UNCHANGED <<pc, LoopLocals, lastRequest, History, turns, nSend, shouldExit, stream, file, console>>

NextApi ==
    \/ StartChat
    \/ ProcessMessage(MaxTurnsApi)
    \/ ModelResponds(MaxToolCallsApi)
    \/ ModelFails
    \/ ToolReturns
    \/ ToolThrows
    \/ CorrectionResponds
    \/ CorrectionFails
    \/ SendMessage
    \/ SendResponds
    \/ SendFails
    \/ GetConversation
    \/ ClearConversation

\* the agent driven through its public methods, one call at a time:
\* sendMessage, getConversation and clearConversation in any order, then
\* startChat and its session
SpecApi == Init /\ [][NextApi]_vars

\* ----------------------------------------------------- reading the transcript
Positions == 1..Len(conversation)

\* positions of the messages that carry tool calls, tool results
ToolCallMessages == {j \in Positions : HasToolCalls(conversation[j])}
ToolResultMessages == {k \in Positions : HasToolResults(conversation[k])}

\* a pushed hint: an assistant message without tool calls or results whose
\* text starts as the catch block's text does
IsHint(m) ==
    /\ m.role = "assistant"
    /\ ~HasToolCalls(m)
    /\ ~HasToolResults(m)
    /\ Len(m.content) >= 3
    /\ SubSeq(m.content, 1, 3) = <<"Tool", "execution", "failed">>

\* the message with tool calls that a later position answers: the nearest
\* one before position k (0 when there is none)
CallMessageBefore(k) ==
    IF \E j \in ToolCallMessages : j < k
    THEN CHOOSE j \in ToolCallMessages :
            j < k /\ \A m \in ToolCallMessages : m < k => m <= j
    ELSE 0

\* where tool call `id` occurs before position k: <<message, index>> pairs
ToolCallSites(id, k) ==
    UNION {{<<j, n>> : n \in {n \in 1..Len(conversation[j].toolCalls) :
                                 conversation[j].toolCalls[n].id = id}} :
           j \in {j \in ToolCallMessages : j < k /\ conversation[j].role = "assistant"}}

\* the results of the transcript, and of the running loop iteration
TranscriptResults ==
    UNION {{conversation[k].toolResults[i] : i \in 1..Len(conversation[k].toolResults)} :
           k \in ToolResultMessages}
PendingResults == {toolResults[i] : i \in 1..Len(toolResults)}

IsErrorResult(r) == "is_error" \in DOMAIN r /\ r.is_error = TRUE

\* ------------------------------------------------------------------------ C1
\* C1: every tool-result message of the transcript answers the latest
\* message with tool calls before it with one result per tool call, in the
\* order of the tool calls: equal lengths and result[i].tool_call_id =
\* toolCalls[i].id, whether the tools succeeded or failed.
C1_OneResultPerCallInOrder ==
    \A k \in ToolResultMessages :
        LET j == CallMessageBefore(k)
            results == conversation[k].toolResults
        IN  /\ j # 0
            /\ Len(results) = Len(conversation[j].toolCalls)
            /\ \A i \in 1..Len(results) :
                  results[i].tool_call_id = conversation[j].toolCalls[i].id

\* a tool-result message for two tool calls, the first failed for good and
\* the second succeeded
C1_Witness ==
    \E k \in ToolResultMessages :
        /\ Len(conversation[k].toolResults) = 2
        /\ IsErrorResult(conversation[k].toolResults[1])
        /\ ~IsErrorResult(conversation[k].toolResults[2])

\* ------------------------------------------------------------------------ C2
\* C2: in every reachable state, each ToolResult of a transcript message
\* carries the id of exactly one ToolCall of an assistant message at an
\* earlier position of the transcript.
C2_NoOrphanResult ==
    \A k \in ToolResultMessages :
        \A i \in 1..Len(conversation[k].toolResults) :
            Cardinality(ToolCallSites(conversation[k].toolResults[i].tool_call_id, k)) = 1

\* results in the transcript of a session in which a turn was aborted
C2_Witness ==
    /\ ToolResultMessages # {}
    /\ pc = "ABORTED"

\* ------------------------------------------------------- reading the history
\* executeTool calls that came back for tool call `id`, and those started
Attempted(id) == Len(calls[id].errs) + (IF calls[id].ok THEN 1 ELSE 0)
Current(id) ==
    /\ pc \in {"EXECUTING_TOOLS", "AWAITING_CORRECTION"}
    /\ toolCalls[idx].id = id
Started(id) ==
    Attempted(id) + (IF pc = "EXECUTING_TOOLS" /\ Current(id) THEN 1 ELSE 0)

\* the loop has come to tool call `id`: it is or was the for loop's call
Reached(id) ==
    \/ id \notin Ids(toolCalls)
    \/ calls[id].pos <= idx

\* the for loop is done with tool call `id`: its result is pushed
Recorded(id) ==
    \E r \in TranscriptResults \cup PendingResults : r.tool_call_id = id

\* the tool call `id` as the model issued it
SiteOf(id) == CHOOSE site \in ToolCallSites(id, Len(conversation) + 1) : TRUE
IssuedCall(id) == conversation[SiteOf(id)[1]].toolCalls[SiteOf(id)[2]]

\* ------------------------------------------------------------------------ C3
\* C3 as stated: at the end of a turn every tool call of the turn has been
\* invoked at least once and at most 3 times.
C3_EveryCallInvoked ==
    pc \in {"DONE", "ABORTED"} =>
        \A id \in IssuedCalls : Attempted(id) >= 1 /\ Attempted(id) <= maxAttempts

\* C3, amended: every tool call the for loop comes to is handed to
\* executeTool at least once and at most 3 times; it is not invoked again
\* after its first success nor after its third failure: the loop goes on
\* to the next tool call, and its result is pushed exactly then.  (A tool
\* call behind one whose self-correction request failed is never invoked.)
C3_AttemptsBounded ==
    \A id \in IssuedCalls :
        /\ Started(id) <= maxAttempts
        /\ calls[id].lost = 0 /\ Reached(id) => Started(id) >= 1
        /\ calls[id].lost # 0 /\ calls[id].pos <= calls[id].lost => Attempted(id) >= 1
        /\ Current(id) => ~calls[id].ok /\ Len(calls[id].errs) < maxAttempts
        /\ calls[id].ok \/ Len(calls[id].errs) = maxAttempts => ~Current(id)
        /\ calls[id].lost = 0 /\ ~Current(id) /\ Reached(id) =>
              /\ calls[id].ok \/ Len(calls[id].errs) = maxAttempts
              /\ Recorded(id)
        /\ Recorded(id) => calls[id].ok \/ Len(calls[id].errs) = maxAttempts

\* a tool call that failed 3 times, followed by one that succeeded at once
C3_Witness ==
    \E a, b \in IssuedCalls :
        /\ Len(calls[a].errs) = maxAttempts /\ ~calls[a].ok
        /\ calls[b].ok /\ calls[b].errs = <<>>
        /\ calls[a].pos = 1 /\ calls[b].pos = 2 /\ b = a + 1
        /\ Recorded(b)

\* ------------------------------------------------------------------------ C4
\* the result pushed for tool call `id` after its last failed attempt
FinalResultOk(r, id) ==
    /\ r.tool_call_id = id
    /\ IsErrorResult(r)
    /\ includes(r.content, <<"3", "attempts">>)
    /\ includes(r.content, calls[id].errs[maxAttempts])

\* C4 as stated: a turn in which a tool call failed on all 3 attempts ends
\* with that call's error result in a tool-result message of the transcript.
C4_FinalFailureReachesTranscript ==
    pc \in {"DONE", "ABORTED"} =>
        \A id \in IssuedCalls :
            Len(calls[id].errs) = maxAttempts =>
                \E r \in TranscriptResults : FinalResultOk(r, id)

\* the step in which tool call toolCalls[idx] fails for the third time
ThirdFailureStep ==
    /\ pc = "EXECUTING_TOOLS"
    /\ Len(calls[toolCalls[idx].id].errs) = maxAttempts - 1
    /\ Len(calls'[toolCalls[idx].id].errs) = maxAttempts

\* C4, amended: the third failure of a tool call records a result with
\* is_error = true whose content names the 3 attempts and the last error
\* text, and does not end the turn: the loop goes on to the next tool call,
\* or, after the last one, pushes the tool-result message and requests the
\* model's next message.  The result reaches the transcript unless the
\* self-correction request of a later tool call of the same response fails.
C4_FinalFailureRecorded ==
    /\ [][ThirdFailureStep =>
            /\ toolResults' # <<>>
            /\ SubSeq(toolResults', 1, Len(toolResults)) = toolResults
            /\ Len(toolResults') = Len(toolResults) + 1
            /\ LET r == toolResults'[Len(toolResults')] IN
                 /\ r.tool_call_id = toolCalls[idx].id
                 /\ IsErrorResult(r)
                 /\ includes(r.content, <<"3", "attempts">>)
                 /\ includes(r.content, calls'[toolCalls[idx].id].errs[maxAttempts])
            /\ IF idx < Len(toolCalls)
               THEN /\ pc' = "EXECUTING_TOOLS"
                    /\ idx' = idx + 1
                    /\ toolCalls' = toolCalls
                    /\ conversation' = conversation
               ELSE /\ pc' = "AWAITING_MODEL"
                    /\ conversation' = Append(conversation, ToolResultsMessage(toolResults'))
                    /\ lastRequest' = getLimitedConversation(conversation')]_vars
    /\ [](\A id \in IssuedCalls :
            Len(calls[id].errs) = maxAttempts =>
                \/ \E r \in TranscriptResults : FinalResultOk(r, id)
                \/ /\ id \in Ids(toolCalls)
                   /\ calls[id].pos < idx
                   /\ \E r \in PendingResults : FinalResultOk(r, id)
                \/ calls[id].lost > calls[id].pos)

\* the first of two tool calls failed 3 times, the second was still
\* processed, the tool-result message is pushed and the model is asked again
C4_Witness ==
    /\ pc = "AWAITING_MODEL"
    /\ Len(conversation) > 0
    /\ HasToolResults(conversation[Len(conversation)])
    /\ Len(conversation[Len(conversation)].toolResults) = 2
    /\ LET r == conversation[Len(conversation)].toolResults[1] IN
         /\ r.tool_call_id \in IssuedCalls
         /\ Len(calls[r.tool_call_id].errs) = maxAttempts
         /\ FinalResultOk(r, r.tool_call_id)
    /\ lastRequest = conversation

\* ------------------------------------------------------------------ hints
\* the messages that follow the tool-call message at position j within its
\* round: up to the next message with tool results or tool calls, or the
\* next user message
RoundEnd(j) ==
    LET ends == {k \in Positions :
                    /\ k > j
                    /\ \/ HasToolResults(conversation[k])
                       \/ HasToolCalls(conversation[k])
                       \/ conversation[k].role = "user"}
    IN  IF ends = {} THEN Len(conversation) + 1
        ELSE CHOOSE k \in ends : \A m \in ends : k <= m

HintsInRound(j) ==
    Cardinality({k \in (j + 1)..(RoundEnd(j) - 1) : IsHint(conversation[k])})

RECURSIVE SumHints(_)
SumHints(tcs) ==
    IF tcs = <<>> THEN 0 ELSE calls[Head(tcs).id].hints + SumHints(Tail(tcs))

\* the hint messages of the transcript are those counted per tool call
HintsAccounted ==
    /\ \A j \in ToolCallMessages : HintsInRound(j) = SumHints(conversation[j].toolCalls)
    /\ \A k \in Positions :
          IsHint(conversation[k]) =>
              CallMessageBefore(k) # 0 /\ RoundEnd(CallMessageBefore(k)) > k

\* ------------------------------------------------------------------------ C5
FailedTwiceThenSucceeded(id) ==
    /\ calls[id].errs = <<ErrFileNotFound, ErrFileNotFound>>
    /\ calls[id].ok

NonFinalFailures(id) == {k \in 1..Len(calls[id].errs) : k < maxAttempts}
HintedFailures(id) ==
    {k \in NonFinalFailures(id) :
        getErrorContext(calls[id].errs[k], IssuedCall(id)) # <<>>}

\* C6 as stated: one hint message and one self-correction request per
\* failed attempt before the last, whatever the error text.
C6_HintAfterEveryFailure ==
    \A id \in IssuedCalls :
        /\ calls[id].hints = Cardinality(NonFinalFailures(id))
        /\ calls[id].corr = Cardinality(NonFinalFailures(id))

\* C6, amended: after a failed attempt that is not the 3rd, the loop pushes
\* exactly one hint message and then sends exactly one self-correction
\* request if getErrorContext has a hint for the error text (and the tool);
\* for any other error text it pushes nothing and sends nothing, and starts
\* the next attempt at once.  After the 3rd failed attempt it pushes no
\* hint and sends no self-correction request.
C6_HintOnlyWithContext ==
    /\ HintsAccounted
    /\ \A id \in IssuedCalls :
          /\ calls[id].hints = Cardinality(HintedFailures(id))
          /\ calls[id].corr = Cardinality(HintedFailures(id))
    /\ pc = "AWAITING_CORRECTION" =>
          /\ IsHint(conversation[Len(conversation)])
          /\ lastRequest = conversation
          /\ attempts < maxAttempts
          /\ attempts = Len(calls[toolCalls[idx].id].errs)

\* a tool call failed 3 times: without a hint, with one, and for good
C6_Witness ==
    \E id \in IssuedCalls :
        /\ calls[id].errs = <<ErrNotAFile, ErrFileNotFound, ErrFileNotFound>>
        /\ calls[id].hints = 1
        /\ Recorded(id)

\* ------------------------------------------------------------------------ C7
\* ids that occur anywhere the loop keeps tool calls or results
IdsInUse ==
    Ids(toolCalls)
      \cup {r.tool_call_id : r \in TranscriptResults \cup PendingResults}
      \cup UNION {Ids(conversation[j].toolCalls) : j \in ToolCallMessages}

C8_WindowIsSystemPlusLastTen ==
    LET window == getLimitedConversation(conversation)
        n == Len(conversation)
    IN  IF n <= 11
        THEN window = conversation
        ELSE /\ Len(window) = 11
             /\ window[1] = conversation[1]
             /\ \A i \in 1..10 : window[1 + i] = conversation[n - 10 + i]

\* a transcript of 13 messages, the system message first
C8_Witness ==
    /\ Len(conversation) = 13
    /\ conversation[1] = SystemMessage
    /\ Len(getLimitedConversation(conversation)) = 11

\* ------------------------------------------------------------------------ C9
\* C9: every request in flight, the main one and the self-correction one,
\* carries at most 11 messages, the first of them transcript[0].
C9_EveryRequestIsWindow ==
    pc \in {"AWAITING_MODEL", "AWAITING_CORRECTION"} =>
        /\ Len(lastRequest) <= 11
        /\ lastRequest[1] = conversation[1]

\* ----------------------------------------------------------------------- C10
\* C10: a turn is DONE exactly when a main response without tool calls
\* arrives: that response is the last message pushed, and until the next
\* user input nothing is requested, executed or pushed; a response with
\* tool calls never makes the turn DONE.
C10_DoneAtFirstResponseWithoutToolCalls ==
    /\ [][pc = "AWAITING_MODEL" /\ conversation' # conversation =>
            /\ conversation' = Append(conversation, conversation'[Len(conversation')])
            /\ conversation'[Len(conversation')].role = "assistant"
            /\ ~HasToolResults(conversation'[Len(conversation')])
            /\ pc' = "DONE" <=> ~HasToolCalls(conversation'[Len(conversation')])
            /\ pc' # "DONE" => pc' = "EXECUTING_TOOLS"]_vars
    /\ [][pc' = "DONE" /\ pc # "DONE" =>
            pc = "AWAITING_MODEL" /\ Len(conversation') = Len(conversation) + 1]_vars
    /\ [][pc = "DONE" /\ turns' = turns =>
            UNCHANGED <<conversation, lastRequest, pc, toolCalls, toolResults, calls>>]_vars
    /\ [](pc = "DONE" =>
            /\ conversation[Len(conversation)].role = "assistant"
            /\ ~HasToolCalls(conversation[Len(conversation)])
            /\ ~HasToolResults(conversation[Len(conversation)]))

\* a turn that ran tools before its response without tool calls
C10_Witness ==
    /\ pc = "DONE"
    /\ Len(conversation) >= 4
    /\ HasToolResults(conversation[Len(conversation) - 1])
    /\ \E j \in ToolCallMessages : conversation[j - 1].role = "user"

\* ----------------------------------------------------------- chatStream
\* Bytes of a streamed answer.  "{" stands for the bytes of
\* {"candidates":[{"content":{"parts":[{"text":" and "}" for those of
\* "}]}}]} , so that "{", the bytes of a JSON string body, "}" is one
\* object with one text part; "F" stands for the bytes of an object with
\* one functionCall part; "C3", "A9" are the two bytes of the character é
\* in UTF-8; "\\", "n" are the escape sequence of a line feed inside a
\* string; "LF" is the line feed byte.  "Open" stands for the byte { that
\* opens an object when white space follows it, and "Rest" for the bytes
\* "candidates":[{"content":{"parts":[{"text":" behind that white space;
\* "7D" is the byte } inside a string.
Obj(body) == <<"{">> \o body \o <<"}">>

\* string bodies: plain, with a two-byte character, with an escape
\* sequence, with a brace
StreamBodies == {<<"a", "b">>, <<"a">>, <<"C3", "A9">>, <<"\\", "n">>, <<"7D">>}

\* what may stand between two line feeds: an object, one cut short, two
\* objects, the first line and the second line of an object printed on two
\* lines
StreamLines ==
    {Obj(body) : body \in StreamBodies} \cup
    {<<"F">>, <<"{", "a">>, <<"F", "F">>, <<"Open">>, <<"Rest", "a", "}">>}

\* answers of one to MaxLines lines and at most MaxBytes bytes, the last
\* line with or without its line feed
RECURSIVE StreamsOf(_)
StreamsOf(n) ==
    IF n = 1
    THEN {line \o end : line \in StreamLines, end \in {<<>>, <<"LF">>}}
    ELSE {line \o <<"LF">> \o rest : line \in StreamLines, rest \in StreamsOf(n - 1)}
StreamInputs ==
    {bytes \in UNION {StreamsOf(n) : n \in 1..MaxLines} : Len(bytes) <= MaxBytes}

\* the ways the network may cut `bytes` into at most MaxChunks chunks
RECURSIVE CutAt(_, _, _)
CutAt(bytes, cuts, from) ==
    IF cuts = {}
    THEN <<SubSeq(bytes, from, Len(bytes))>>
    ELSE LET c == CHOOSE x \in cuts : \A y \in cuts : x <= y
         IN  <<SubSeq(bytes, from, c)>> \o CutAt(bytes, cuts \ {c}, c + 1)
Chunkings(bytes) ==
    {CutAt(bytes, cuts, 1) :
        cuts \in {cs \in SUBSET (1..(Len(bytes) - 1)) : Cardinality(cs) < MaxChunks}}

\* chunk.toString(): UTF-8 decoding of one chunk on its own; a lead byte
\* without its continuation byte in the same chunk, and a continuation
\* byte without its lead byte, each become U+FFFD
RECURSIVE Decode(_)
Decode(chunk) ==
    IF chunk = <<>> THEN <<>>
    ELSE IF Head(chunk) = "C3" /\ Len(chunk) >= 2 /\ chunk[2] = "A9"
    THEN <<"U+00E9">> \o Decode(SubSeq(chunk, 3, Len(chunk)))
    ELSE IF Head(chunk) \in {"C3", "A9"}
    THEN <<"U+FFFD">> \o Decode(Tail(chunk))
    ELSE <<Head(chunk)>> \o Decode(Tail(chunk))

\* String.prototype.split('\n')
RECURSIVE Split(_, _)
Split(text, line) ==
    IF text = <<>> THEN <<line>>
    ELSE IF Head(text) = "LF" THEN <<line>> \o Split(Tail(text), <<>>)
    ELSE Split(Tail(text), Append(line, Head(text)))

\* JSON.parse of a string body: its characters with the escape sequences
\* resolved, or <<"SyntaxError">> when it has a lone backslash, an unknown
\* escape or a bare delimiter
RECURSIVE ParseBody(_)
ParseBody(body) ==
    IF body = <<>> THEN <<>>
    ELSE IF Head(body) = "\\"
    THEN IF Len(body) >= 2 /\ body[2] \in {"n", "b"}
         THEN LET rest == ParseBody(SubSeq(body, 3, Len(body)))
              IN  IF rest = <<"SyntaxError">> THEN rest
                  ELSE <<IF body[2] = "n" THEN "U+000A" ELSE "U+0008">> \o rest
         ELSE <<"SyntaxError">>
    ELSE IF Head(body) \in {"{", "}", "F", "Open", "Rest", "LF"}
    THEN <<"SyntaxError">>
    ELSE LET rest == ParseBody(Tail(body))
         IN  IF rest = <<"SyntaxError">> THEN rest ELSE <<Head(body)>> \o rest

\* JSON.parse(line): the parts of the object's candidate, or the
\* SyntaxError thrown
SyntaxError == [ok |-> FALSE]

\* line feeds are white space between the tokens of a JSON text
RECURSIVE SkipWhiteSpace(_)
SkipWhiteSpace(text) ==
    IF text # <<>> /\ Head(text) = "LF" THEN SkipWhiteSpace(Tail(text)) ELSE text

JSONparse(line) ==
    LET afterOpen == IF line # <<>> /\ Head(line) = "Open"
                     THEN SkipWhiteSpace(Tail(line)) ELSE <<>>
        json == IF afterOpen # <<>> /\ Head(afterOpen) = "Rest"
                THEN <<"{">> \o Tail(afterOpen) ELSE line
    IN  IF json = <<"F">>
        THEN [ok |-> TRUE, parts |-> <<PartF>>]
        ELSE IF Len(json) >= 2 /\ json[1] = "{" /\ json[Len(json)] = "}"
        THEN LET text == ParseBody(SubSeq(json, 2, Len(json) - 1))
             IN  IF text = <<"SyntaxError">> THEN SyntaxError
                 ELSE [ok |-> TRUE, parts |-> <<TextPart(text)>>]
        ELSE SyntaxError

\* the message chatStream yields from its locals
StreamMessage(st) ==
    IF Len(st.currentToolCalls) > 0
    THEN [role |-> "assistant", content |-> st.currentContent,
          toolCalls |-> st.currentToolCalls]
    ELSE [role |-> "assistant", content |-> st.currentContent]

RECURSIVE HandleParts_yieldsDelta(_, _)
HandleParts_yieldsDelta(st, parts) ==
    IF parts = <<>> THEN st
    ELSE LET part == Head(parts)
             withText ==
                 IF IsTextPart(part) /\ part.text # <<>>
                 THEN LET st1 == [st EXCEPT !.currentContent = @ \o part.text]
                      IN  [st1 EXCEPT !.yielded =
                              Append(@, [StreamMessage(st1) EXCEPT !.content = part.text])]
                 ELSE st
             withCall ==
                 IF IsFunctionCallPart(part)
                 THEN [withText EXCEPT !.currentToolCalls =
                         Append(@, ToolCall(NewToolCallId(Len(@) + 1), part.functionCall))]
                 ELSE withText
         IN  HandleParts_yieldsDelta(withCall, Tail(parts))

\* the body of `for (const part of candidate.content.parts)`
RECURSIVE HandleParts(_, _)
HandleParts(st, parts) ==
    IF parts = <<>> THEN st
    ELSE LET part == Head(parts)
             withText ==
                 IF IsTextPart(part) /\ part.text # <<>>
                 THEN LET st1 == [st EXCEPT !.currentContent = @ \o part.text]
                      IN  [st1 EXCEPT !.yielded = Append(@, StreamMessage(st1))]
                 ELSE st
             withCall ==
                 IF IsFunctionCallPart(part)
                 THEN [withText EXCEPT !.currentToolCalls =
                         Append(@, ToolCall(NewToolCallId(Len(@) + 1), part.functionCall))]
                 ELSE withText
         IN  HandleParts(withCall, Tail(parts))

HandleLine_errorDropsProgress(st, line) ==
    IF line = <<>> THEN st
    ELSE LET parsed == JSONparse(line)
         IN  IF ~parsed.ok
             THEN [st EXCEPT !.currentContent = <<>>, !.currentToolCalls = <<>>]
             ELSE HandleParts([st EXCEPT !.parsed = Append(@, parsed.parts)],
                              parsed.parts)

\* the body of `for (const line of lines)`: empty lines and lines that do
\* not parse are skipped
HandleLine(st, line) ==
    IF line = <<>> THEN st
    ELSE LET parsed == JSONparse(line)
         IN  IF ~parsed.ok THEN st
             ELSE HandleParts([st EXCEPT !.parsed = Append(@, parsed.parts)],
                              parsed.parts)

RECURSIVE HandleLines(_, _)
HandleLines(st, lines) ==
    IF lines = <<>> THEN st
    ELSE HandleLines(HandleLine(st, Head(lines)), Tail(lines))

\* one pass of `for await (const chunk of response.data)`: the chunk is
\* decoded and appended to the buffer, the buffer is split at the line
\* feeds, the last piece stays in the buffer, the other lines are handled
FeedChunk(st, chunk) ==
    LET lines == Split(st.buffer \o Decode(chunk), <<>>)
    IN  HandleLines([st EXCEPT !.buffer = lines[Len(lines)]],
                    SubSeq(lines, 1, Len(lines) - 1))

\* after the loop: one more message when there is content or a tool call
FinishStream(st) ==
    IF st.currentContent # <<>> \/ Len(st.currentToolCalls) > 0
    THEN [st EXCEPT !.yielded = Append(@, StreamMessage(st))]
    ELSE st

\* the next chunk of the answer arrives
ChunkArrives ==
    /\ pc = "STREAMING"
    /\ stream.chunks # <<>>
    /\ stream' = FeedChunk([stream EXCEPT !.chunks = Tail(@)], Head(stream.chunks))
    /\ UNCHANGED <<conversation, pc, LoopLocals, lastRequest, History, turns,
                   shouldExit, returned, nSend, file, console>>

\* the answer is over
StreamEnds ==
    /\ pc = "STREAMING"
    /\ stream.chunks = <<>>
    /\ stream' = FinishStream(stream)
    /\ pc' = "STREAM_DONE"
    /\ UNCHANGED <<conversation, LoopLocals, lastRequest, History, turns,
                   shouldExit, returned, nSend, file, console>>

\* the connection breaks: chatStream throws 'Gemini streaming error: ...'
StreamFails ==
    /\ pc = "STREAMING"
    /\ stream.chunks # <<>>
    /\ pc' = "STREAM_FAILED"
    /\ UNCHANGED <<conversation, LoopLocals, lastRequest, History, turns,
                   shouldExit, stream, returned, nSend, file, console>>

\* a chatStream call on a client, after its post resolved with a stream
InitStream ==
    /\ conversation = <<>>
    /\ pc = "STREAMING"
    /\ toolCalls = <<>>
    /\ idx = 0
    /\ attempts = 0
    /\ toolResults = <<>>
    /\ correction = <<>>
    /\ lastRequest = <<>>
    /\ calls = <<>>
    /\ nextId = 1
    /\ turns = 0
    /\ nFail = 0
    /\ nTransportFail = 0
    /\ shouldExit = FALSE
    /\ \E bytes \in StreamInputs : \E chunks \in Chunkings(bytes) :
         stream = NewStream(bytes, chunks)
    /\ returned = [op |-> "none"]
    /\ nSend = 0
    /\ file = NoFile
    /\ console = <<>>

NextStream ==
    \/ ChunkArrives
    \/ StreamEnds
    \/ StreamFails

SpecStream == InitStream /\ [][NextStream]_vars

\* ------------------------------------------------------------ C11 and C12
IsPrefix(a, b) == Len(a) <= Len(b) /\ SubSeq(b, 1, Len(a)) = a

\* C11: every step of the agent other than clearConversation (startChat,
\* the steps of processMessage with its tool executions and its failed or
\* successful requests, sendMessage, getConversation) leaves the transcript
\* it found as a prefix of the transcript it leaves: nothing is removed,
\* changed or reordered, the length never decreases.
C11_AppendOnly ==
    [][ClearConversation \/ IsPrefix(conversation, conversation')]_vars

\* a session that began after sendMessage was answered, and whose turn
\* pushed a tool-call message and a retry hint before its request failed
C11_Witness ==
    /\ pc = "ABORTED"
    /\ nSend > 0
    /\ Len(conversation) >= 6
    /\ \E k \in Positions : IsHint(conversation[k])
    /\ ToolCallMessages # {}

\* C12: whenever the transcript is not empty, its first message is the
\* system message, after any sequence of startChat, processMessage,
\* sendMessage and clearConversation.
C12_SystemMessageFirst ==
    conversation # <<>> => conversation[1] = SystemMessage

\* -------------------------------------------------------------------- C13
\* C13: when a request to the model (the main one or a self-correction
\* one) fails during a turn, processMessage returns to its caller through
\* its own catch block (no throw), the step leaves the transcript as it was
\* (user message, tool-call message and hints pushed before stay), and
\* nothing is appended afterwards until a new turn begins.
C13_FailedRequestKeepsTranscript ==
    [][/\ nTransportFail' # nTransportFail =>
            pc' = "ABORTED" /\ conversation' = conversation
       /\ pc = "ABORTED" =>
            conversation' = conversation \/ turns' = turns + 1]_vars

\* a turn whose self-correction request failed right after a hint was pushed
C13_Witness ==
    /\ pc = "ABORTED"
    /\ nTransportFail = 1
    /\ IsHint(conversation[Len(conversation)])
    /\ \E j \in ToolCallMessages : conversation[j - 1].role = "user"

\* -------------------------------------------------------------------- C14
SessionOver == pc \in {"ENDED", "KILLED"}

C15_SystemFoldedIntoFirstUser ==
    (lastRequest # <<>> /\ lastRequest[1].role = "system") =>
        /\ Len(WireRequest) = Len(lastRequest) - 1
        /\ Len(lastRequest) >= 2 =>
              /\ WireRequest[1].role = "user"
              /\ WireRequest[1].parts[1] =
                    TextPart(lastRequest[1].content \o lastRequest[2].content)

\* -------------------------------------------------------------------- C17
\* the HTTP request failed
RequestFailed(wire) == wire.kind = "rejected"

\* the body has no candidate, or its candidate no content
MalformedBody(wire) ==
    /\ wire.kind = "resolved"
    /\ \/ "candidates" \notin DOMAIN wire.data
       \/ wire.data.candidates = <<>>
       \/ "content" \notin DOMAIN wire.data.candidates[1]

\* C17: when the HTTP request fails or the body is malformed (no
\* candidate, no content), the non-streaming send throws an error and
\* returns no message; the error text contains the endpoint's error message
\* when it supplied one; and no assistant message is appended for that
\* call, neither by sendMessage (the user message stays last) nor by a step
\* of processMessage in which a request fails.
C17_FailedSendThrows ==
    [][/\ nTransportFail' # nTransportFail => conversation' = conversation
       /\ (/\ returned'.op = "sendMessage"
           /\ RequestFailed(returned'.wire) \/ MalformedBody(returned'.wire)) =>
              /\ "error" \in DOMAIN returned'
              /\ "value" \notin DOMAIN returned'
              /\ "upstream" \in DOMAIN returned'.wire =>
                    includes(returned'.error, returned'.wire.upstream)
              /\ conversation'[Len(conversation')].role = "user"]_vars

\* sendMessage threw the error of a request the endpoint rejected with a
\* message of its own
C17_Witness ==
    /\ returned.op = "sendMessage"
    /\ "error" \in DOMAIN returned
    /\ RequestFailed(returned.wire)
    /\ "upstream" \in DOMAIN returned.wire
    /\ includes(returned.error, UpstreamMessage)

\* -------------------------------------------------------------------- C16
\* the texts of the text parts of `parts`, concatenated in order
RECURSIVE AllText(_)
AllText(parts) ==
    IF parts = <<>> THEN <<>>
    ELSE (IF IsTextPart(Head(parts)) THEN Head(parts).text ELSE <<>>)
            \o AllText(Tail(parts))

\* sendMessage returned the message chat parsed from the endpoint's answer
SendReturnedMessage == returned.op = "sendMessage" /\ "value" \in DOMAIN returned

\* C16: the content of the message the non-streaming send returns is the
\* concatenation of all text parts of the candidate in their order,
\* wherever function-call parts sit among them, and empty without any.
C16_ContentIsAllTextParts ==
    SendReturnedMessage =>
        returned.value.content =
            AllText(returned.wire.data.candidates[1].content.parts)

\* ------------------------------------------------------------ C18 and C19
\* C18: when the bytes of the object with the text "ab" arrive as two
\* chunks cut inside the string between a and b, and the stream then ends,
\* the streaming send has parsed one object and yielded a message whose
\* content is "ab".
C18_SplitObjectYieldsAb ==
    (/\ pc = "STREAM_DONE"
     /\ stream.bytes = Obj(<<"a", "b">>)
     /\ stream.network = <<<<"{", "a">>, <<"b", "}">>>>) =>
        /\ Len(stream.parsed) = 1
        /\ stream.yielded # <<>>
        /\ stream.yielded[Len(stream.yielded)].content = <<"a", "b">>

\* what chatStream parses and yields when the bytes arrive as one chunk
OneChunk(bytes) == FinishStream(FeedChunk(NewStream(bytes, <<>>), bytes))

\* C19: whatever the bytes of the answer and however the network cut
\* them into chunks, the streaming send has parsed the same objects and
\* yielded the same messages when the stream is over as it does when the
\* bytes arrive in one chunk.
C19_ChunkingDoesNotMatter ==
    pc = "STREAM_DONE" =>
        /\ stream.parsed = OneChunk(stream.bytes).parsed
        /\ stream.yielded = OneChunk(stream.bytes).yielded

\* -------------------------------------------------------------------- C20
\* C20: the bounded window of a transcript is a fixed point of the
\* bounded-window function (applying the function to its own result
\* returns that result), and a step that cuts the window to send it (the
\* start of a turn, the end of a round of tool calls) leaves the transcript
\* as it is apart from what the step pushed before the call, the window
\* sent being the window of the transcript the step leaves.  (That two
\* calls on the same transcript agree is how an operator behaves.)
C20_WindowIdempotent ==
    [][/\ getLimitedConversation(getLimitedConversation(conversation')) =
            getLimitedConversation(conversation')
       /\ (pc' = "AWAITING_MODEL" /\ pc # "AWAITING_MODEL") =>
            /\ lastRequest' = getLimitedConversation(conversation')
            /\ Len(conversation') > Len(conversation)
            /\ IsPrefix(conversation, conversation')]_vars

\* a request in flight whose window left out part of the transcript
C20_Witness ==
    /\ pc = "AWAITING_MODEL"
    /\ Len(conversation) >= 12
    /\ lastRequest # conversation
    /\ getLimitedConversation(lastRequest) = lastRequest

\* -------------------------------------------------------------------- C21
\* a user turn is running: processMessage was called and has not returned
InTurn == pc \in {"AWAITING_MODEL", "EXECUTING_TOOLS", "AWAITING_CORRECTION"}

\* C21: the tool calls of a response are invoked one at a time in the order
\* received: when a tool call has been handed to executeTool, every tool
\* call before it in the same response has its result recorded and is no
\* longer the one being invoked or corrected; while a request to the model
\* is awaited no tool call of the response has been started without being
\* recorded, unless it is the one the correction is asked for; and a user
\* turn (a piped line, the greeting or an interactive line) starts only
\* when no turn is running, with the loop locals of the turn before gone.
C21_OneAtATime ==
    /\ [](\A a, b \in Ids(toolCalls) :
             calls[a].pos < calls[b].pos /\ Started(b) >= 1 =>
                 Recorded(a) /\ ~Current(a))
    /\ [](\A a \in Ids(toolCalls) :
             Started(a) >= 1 /\ ~Recorded(a) => Current(a))
    /\ [][turns' # turns =>
             /\ ~InTurn
             /\ toolCalls = <<>> /\ toolResults = <<>>
             /\ InTurn']_vars

\* the second tool call of a response of the second turn is being invoked,
\* after the first one failed for good with two corrections asked
C21_Witness ==
    /\ pc = "EXECUTING_TOOLS"
    /\ turns = 2
    /\ idx = 2
    /\ Len(toolResults) = 1
    /\ IsErrorResult(toolResults[1])
    /\ calls[toolCalls[1].id].corr = 2

\* -------------------------------------------------------------------- C22
\* the complete top-level objects of a JSON text, found by brace balance:
\* an object runs from its opening brace to the brace that closes it, line
\* feeds inside it included, and braces inside strings do not count; text
\* outside the objects and an object left open at the end are dropped
RECURSIVE TopLevelObjects(_, _)
TopLevelObjects(text, open) ==
    IF text = <<>> THEN <<>>
    ELSE IF open = <<>>
    THEN IF Head(text) = "F"
         THEN <<(<<"F">>)>> \o TopLevelObjects(Tail(text), <<>>)
         ELSE IF Head(text) \in {"{", "Open"}
         THEN TopLevelObjects(Tail(text), <<Head(text)>>)
         ELSE TopLevelObjects(Tail(text), <<>>)
    ELSE IF Head(text) = "}"
    THEN <<Append(open, "}")>> \o TopLevelObjects(Tail(text), <<>>)
    ELSE TopLevelObjects(Tail(text), Append(open, Head(text)))

\* the bytes are objects that parse, with line feeds between them or
\* inside them, and nothing else
RECURSIVE Flatten(_)
Flatten(seqs) == IF seqs = <<>> THEN <<>> ELSE Head(seqs) \o Flatten(Tail(seqs))
WithoutLF(text) == SelectSeq(text, LAMBDA c : c # "LF")
OnlyObjects(bytes) ==
    LET objects == TopLevelObjects(Decode(bytes), <<>>) IN
    /\ objects # <<>>
    /\ \A i \in 1..Len(objects) : JSONparse(objects[i]).ok
    /\ WithoutLF(Flatten(objects)) = WithoutLF(Decode(bytes))

\* C22: when the stream is over, the objects chatStream parsed are the
\* complete top-level objects of the answer, each once and in their order:
\* also an object printed on several lines, two objects on one line, a
\* last object without a line feed behind it, and an object with a brace
\* inside a string.
C22_EveryObjectParsedOnce ==
    pc = "STREAM_DONE" /\ OnlyObjects(stream.bytes) =>
        LET objects == TopLevelObjects(Decode(stream.bytes), <<>>) IN
        stream.parsed = [i \in 1..Len(objects) |-> JSONparse(objects[i]).parts]

\* -------------------------------------------------------------------- C23
\* the lines chatStream has seen: the text of the chunks, each decoded on
\* its own, up to the last line feed
TextSeen(st) ==
    Flatten([i \in 1..(Len(st.network) - Len(st.chunks)) |-> Decode(st.network[i])])
LinesSeen(st) ==
    LET lines == Split(TextSeen(st), <<>>) IN SubSeq(lines, 1, Len(lines) - 1)
Malformed(line) == line # <<>> /\ ~JSONparse(line).ok

\* the function calls of a sequence of parts, in order
FunctionCallsOf(parts) ==
    LET fcParts == SelectSeq(parts, IsFunctionCallPart)
    IN  [i \in 1..Len(fcParts) |-> fcParts[i].functionCall]

\* C23: a line that does not parse is skipped and nothing else happens:
\* no chunk makes the accumulated content, the accumulated tool calls or
\* the messages yielded lose anything, and after every chunk the objects
\* parsed are those of all the lines seen that parse, before and behind a
\* malformed one, the content is the text of their parts and the tool
\* calls are their function calls, in order.
C23_MalformedSkipped ==
    /\ [](pc \in {"STREAMING", "STREAM_DONE"} =>
            LET valid == SelectSeq(LinesSeen(stream), LAMBDA l : JSONparse(l).ok)
                parts == Flatten(stream.parsed)
            IN  /\ stream.parsed = [i \in 1..Len(valid) |-> JSONparse(valid[i]).parts]
                /\ stream.currentContent = AllText(parts)
                /\ [i \in 1..Len(stream.currentToolCalls) |->
                       [name |-> stream.currentToolCalls[i].function.name,
                        args |-> stream.currentToolCalls[i].function.arguments]]
                     = FunctionCallsOf(parts))
    /\ [][/\ IsPrefix(stream.currentContent, stream'.currentContent)
          /\ IsPrefix(stream.currentToolCalls, stream'.currentToolCalls)
          /\ IsPrefix(stream.yielded, stream'.yielded)
          /\ IsPrefix(stream.parsed, stream'.parsed)]_vars

\* the stream is over, and a malformed line stood between a line with a
\* text part and a line with a function call, both of which came through
C23_Witness ==
    /\ pc = "STREAM_DONE"
    /\ \E i \in 1..Len(LinesSeen(stream)) :
          /\ Malformed(LinesSeen(stream)[i])
          /\ 1 < i /\ i < Len(LinesSeen(stream))
    /\ stream.currentContent # <<>>
    /\ Len(stream.currentToolCalls) = 1
    /\ Len(stream.parsed) = 2

\* -------------------------------------------------------------------- C24
\* the text parts received so far that are not empty, in arrival order
TextPartsReceived(st) ==
    SelectSeq(Flatten(st.parsed), LAMBDA part : IsTextPart(part) /\ part.text # <<>>)

\* C24: while the answer streams in, one message has been yielded per text
\* part received, and the content of the i-th of them is the concatenation
\* of the first i text parts received, not the i-th text alone; so the
\* content of every message yielded, the one yielded at the end included,
\* has the content of the message yielded before it as a prefix.
C24_YieldsCumulativeContent ==
    pc \in {"STREAMING", "STREAM_DONE"} =>
        LET texts == TextPartsReceived(stream) IN
        /\ Len(stream.yielded) >= Len(texts)
        /\ pc = "STREAMING" => Len(stream.yielded) = Len(texts)
        /\ \A i \in 1..Len(texts) :
              stream.yielded[i].content = AllText(SubSeq(texts, 1, i))
        /\ \A i \in 1..(Len(stream.yielded) - 1) :
              IsPrefix(stream.yielded[i].content, stream.yielded[i + 1].content)

\* two text parts have come in, in different chunks, and the second
\* message yielded carries both texts
C24_Witness ==
    /\ pc = "STREAMING"
    /\ Len(stream.yielded) = 2
    /\ Len(TextPartsReceived(stream)) = 2
    /\ stream.yielded[1].content # <<>>
    /\ Len(stream.yielded[2].content) > Len(stream.yielded[1].content)
    /\ Len(stream.network) - Len(stream.chunks) >= 2

\* -------------------------------------------------------------------- C25
\* C25: the step at the end of the stream yields one more message, the one
\* with the accumulated content and tool calls, when there is content or a
\* tool call and the message yielded last is not that very message; else it
\* yields nothing: no message that equals the one before it, and no message
\* when nothing was accumulated.
C25_FinalMessageOnlyWhenPending ==
    [][StreamEnds =>
         LET final == StreamMessage(stream)
             accumulated == stream.currentContent # <<>> \/ Len(stream.currentToolCalls) > 0
             emitted == /\ stream.yielded # <<>>
                        /\ stream.yielded[Len(stream.yielded)] = final
         IN  stream'.yielded = IF accumulated /\ ~emitted
                               THEN Append(stream.yielded, final)
                               ELSE stream.yielded]_vars

\* ------------------------------------------------------ requests in time
\* chatStream's post is under way: nothing has come back yet
InitConnecting ==
    /\ conversation = <<>>
    /\ pc = "CONNECTING"
    /\ toolCalls = <<>>
    /\ idx = 0
    /\ attempts = 0
    /\ toolResults = <<>>
    /\ correction = <<>>
    /\ lastRequest = <<>>
    /\ calls = <<>>
    /\ nextId = 1
    /\ turns = 0
    /\ nFail = 0
    /\ nTransportFail = 0
    /\ shouldExit = FALSE
    /\ stream = NewStream(<<>>, <<>>)
    /\ returned = [op |-> "none"]
    /\ nSend = 0
    /\ file = NoFile
    /\ console = <<>>

\* the post of chatStream resolves with the answer's stream
StreamOpens ==
    /\ pc = "CONNECTING"
    /\ \E bytes \in StreamInputs : \E chunks \in Chunkings(bytes) :
         stream' = NewStream(bytes, chunks)
    /\ pc' = "STREAMING"
    /\ UNCHANGED <<conversation, LoopLocals, lastRequest, History, turns,
                   shouldExit, returned, nSend, file, console>>

\* the post of chatStream is rejected by the endpoint or the network:
\* chatStream throws 'Gemini streaming error: ...'
ConnectFails ==
    /\ pc = "CONNECTING"
    /\ pc' = "STREAM_FAILED"
    /\ UNCHANGED <<conversation, LoopLocals, lastRequest, History, turns,
                   shouldExit, stream, returned, nSend, file, console>>

\* the timer of a pending post fires and the post is rejected with
\* 'timeout of 60000ms exceeded'.  Only the post of chatStream is given a
\* timeout; the client is created without one and chat passes none to its
\* post, so no timer runs while processMessage or sendMessage awaits chat.
TimeoutExpires ==
    /\ pc = "CONNECTING"
    /\ streamTimeout > 0
    /\ pc' = "STREAM_FAILED"
    /\ UNCHANGED <<conversation, LoopLocals, lastRequest, History, turns,
                   shouldExit, stream, returned, nSend, file, console>>

InitTimeout == Init \/ InitConnecting

NextTimeout ==
    \/ Next
    \/ StreamOpens
    \/ ConnectFails
    \/ TimeoutExpires
    \/ NextStream

\* the agent's loop and a chatStream call, each with an endpoint that may
\* answer, fail or stay silent; a timer that was set fires in the end
SpecTimeout == InitTimeout /\ [][NextTimeout]_vars /\ WF_vars(TimeoutExpires)

\* -------------------------------------------------------------------- C27
\* C27: a request of the loop does not wait for the endpoint forever: from
\* every state in which processMessage awaits client.chat a state is
\* reached in which it no longer does (the answer came, or the call failed,
\* at the latest on its timeout, and the turn was aborted); likewise the
\* post of a streaming call is over in the end, failed on its timeout when
\* nothing came back.
C27_SilentEndpointTimesOut ==
    /\ (pc = "AWAITING_MODEL") ~> (pc # "AWAITING_MODEL")
    /\ (pc = "CONNECTING") ~> (pc # "CONNECTING")

\* ------------------------------------------------- the tools' error texts
\* read_file (file-reader.ts): the file is unreadable, a component of the
\* path is a file; and the first of them for a path named "file not found"
ErrPermissionDenied == <<"Permission", "denied", "reading", "file", ":", "p">>
ErrNotADirectory == <<"Path", "component", "is", "not", "a", "directory", ":", "p">>
ErrDeniedOddPath ==
    <<"Permission", "denied", "reading", "file", ":", "file", "not", "found">>
\* list_files: the path does not exist, is unreadable, is a file
ErrPathNotFound == <<"Path", "not", "found", ":", "p">>
ErrDirectoryDenied == <<"Permission", "denied", "accessing", "directory", ":", "p">>
ErrPathNotADirectory == <<"Path", "is", "not", "a", "directory", ":", "p">>
\* bash: the shell does not know the command
ErrCommandNotFound == <<"Command", "not", "found", ":", "c">>
\* edit_file: old_string does not occur in the file, or occurs on two lines
ErrTextAbsent ==
    <<"The", "text", "x", "was", "not", "found", "in", "the", "file", ".",
      "Please", "check", "the", "exact", "text">>
ErrTextNotUnique ==
    <<"The", "text", "x", "appears", "2", "times", "in", "the", "file", "at",
      "line", "1", ",", "line", "2", ".", "Please", "provide", "more", "context">>
\* code_search: ripgrep wrote to stderr
ErrSearchFailed == <<"Search", "failed", ":", "stderr">>
\* code_search: ripgrep printed nothing; this text is returned, not thrown
NoMatchesOutput == <<"No", "matches", "found", "for", "pattern", ":", "x">>

\* what executeTool can throw for a tool call, tool by tool
ThrowableByTool(toolCall) ==
    LET name == toolCall.function.name IN
    CASE name = "read_file" ->
            {ErrFileNotFound, ErrNotAFile, ErrPermissionDenied, ErrNotADirectory,
             ErrDeniedOddPath}
      [] name = "list_files" ->
            {ErrPathNotFound, ErrDirectoryDenied, ErrPathNotADirectory}
      [] name = "bash" -> {ErrCommandNotFound}
      [] name = "edit_file" -> {ErrTextAbsent, ErrTextNotUnique}
      [] name = "code_search" -> {ErrSearchFailed}
      [] OTHER -> {ToolNotFoundError(name)}

\* what the function of a tool can return, tool by tool
ReturnableByTool(toolCall) ==
    IF toolCall.function.name = "code_search"
    THEN {NoMatchesOutput} \cup ToolOutputs
    ELSE ToolOutputs

\* the greeting turn after the model answered with one call of any tool
InitHint ==
    \E name \in {tools[i] : i \in 1..Len(tools)} \cup {"no_such_tool"} :
        LET response ==
                parseGeminiResponse(
                    TextThenCalls(<<>>, <<[name |-> name, args |-> "p"]>>), 1)
            request == <<SystemMessage, UserMessage(<<"hi">>)>>
        IN  /\ conversation = Append(request, response)
            /\ pc = "EXECUTING_TOOLS"
            /\ toolCalls = response.toolCalls
            /\ idx = 1
            /\ attempts = 1
            /\ toolResults = <<>>
            /\ correction = <<>>
            /\ lastRequest = getLimitedConversation(request)
            /\ calls = [id \in Ids(response.toolCalls) |-> NewCall(1)]
            /\ nextId = 2
            /\ turns = 1
            /\ nFail = 0
            /\ nTransportFail = 0
            /\ shouldExit = FALSE
            /\ stream = NewStream(<<>>, <<>>)
            /\ returned = [op |-> "none"]
            /\ nSend = 0
            /\ file = NoFile
            /\ console = <<>>

ToolThrowsAnyTool == ToolThrowsWith(ThrowableByTool(toolCalls[idx]))
ToolReturnsAnyTool == ToolReturnsWith(ReturnableByTool(toolCalls[idx]))

NextHint ==
    \/ ToolThrowsAnyTool
    \/ ToolReturnsAnyTool
    \/ CorrectionResponds
    \/ CorrectionFails
    \/ ModelResponds(1)
    \/ ModelFails

\* one tool call of any of the tools, with the error texts of that tool
SpecHint == InitHint /\ [][NextHint]_vars

\* -------------------------------------------------------------------- C28
ErrorTexts ==
    UNION {ThrowableByTool([function |-> [name |-> name]]) :
           name \in {tools[i] : i \in 1..Len(tools)} \cup {"no_such_tool"}}

ListFilesHint ==
    <<"The file path may be incorrect. Try using list_files first to see available files.">>
PermissionsHint ==
    <<"Permission denied. Check file permissions or try a different path.">>
PathTypeHint ==
    <<"The specified path is not a directory. Use list_files to check the path type.">>
CommandHint ==
    <<"The command is not available. Check if the required tool is installed.">>

\* the step in which an attempt of toolCalls[idx] that is not the last one
\* fails with `error`
NonFinalFailure(error) ==
    /\ pc = "EXECUTING_TOOLS"
    /\ attempts < maxAttempts
    /\ calls'[toolCalls[idx].id].errs = Append(calls[toolCalls[idx].id].errs, error)

\* the step pushes the hint message with the text `hint` for `error` and
\* requests a correction; the step pushes nothing and retries at once
HintPushed(error, hint) ==
    /\ pc' = "AWAITING_CORRECTION"
    /\ Len(conversation') = Len(conversation) + 1
    /\ IsPrefix(conversation, conversation')
    /\ IsHint(conversation'[Len(conversation')])
    /\ includes(conversation'[Len(conversation')].content, error \o <<".">> \o hint)
    /\ lastRequest' = conversation'
NothingPushed ==
    /\ pc' = "EXECUTING_TOOLS"
    /\ conversation' = conversation
    /\ attempts' = attempts + 1

\* C28 as stated: whatever the tool, after a failed attempt that is not the
\* last, an error text containing "not found" gets the list-files hint,
\* one containing "permission denied" the check-permissions hint and one
\* containing "not a directory" the path-type hint.
C28_HintBySubstring ==
    [][\A error \in ErrorTexts :
         NonFinalFailure(error) =>
             LET errorMessage == toLowerCase(error) IN
             /\ includes(errorMessage, <<"not", "found">>) =>
                    HintPushed(error, ListFilesHint)
             /\ includes(errorMessage, <<"permission", "denied">>) =>
                    HintPushed(error, PermissionsHint)
             /\ includes(errorMessage, <<"not", "a", "directory">>) =>
                    HintPushed(error, PathTypeHint)]_vars

\* C28, amended: the hint is chosen by the first match, in this order, on
\* the lower-cased error text, whatever the tool: "file not found" gets
\* the list-files hint, else "permission denied" the check-permissions
\* hint, else "not a directory" the path-type hint, else "command not
\* found" the command hint; any other text containing "not found" (an
\* unregistered tool, a path or a text to replace that was not found) gets
\* no hint message and no correction request.
C28_HintByFirstMatch ==
    [][\A error \in ErrorTexts :
         NonFinalFailure(error) =>
             LET errorMessage == toLowerCase(error) IN
             IF includes(errorMessage, <<"file", "not", "found">>)
             THEN HintPushed(error, ListFilesHint)
             ELSE IF includes(errorMessage, <<"permission", "denied">>)
             THEN HintPushed(error, PermissionsHint)
             ELSE IF includes(errorMessage, <<"not", "a", "directory">>)
             THEN HintPushed(error, PathTypeHint)
             ELSE IF includes(errorMessage, <<"command", "not", "found">>)
             THEN HintPushed(error, CommandHint)
             ELSE includes(errorMessage, <<"not", "found">>) => NothingPushed]_vars

\* a correction is awaited for a tool call that failed twice: on a path
\* that is not a file, without a hint, and on an unreadable path whose
\* name holds "file not found", with the list-files hint
C28_Witness ==
    /\ pc = "AWAITING_CORRECTION"
    /\ toolCalls[idx].function.name = "read_file"
    /\ calls[toolCalls[idx].id].errs = <<ErrNotAFile, ErrDeniedOddPath>>
    /\ calls[toolCalls[idx].id].hints = 1
    /\ includes(conversation[Len(conversation)].content, ListFilesHint)

\* -------------------------------------------------------------------- C29
NoMatchesHint ==
    <<"No matches found for the search pattern. Try a different pattern or check the file type.">>
TextAbsentHint ==
    <<"The text to replace was not found. Check the exact text and try reading the file first.">>
TextNotUniqueHint ==
    <<"The text appears multiple times. Provide more context to make it unique.">>

\* the step in which code_search comes back without a match
NoMatchStep ==
    /\ pc = "EXECUTING_TOOLS"
    /\ toolCalls[idx].function.name = "code_search"
    /\ Len(toolResults') = Len(toolResults) + 1
    /\ toolResults'[Len(toolResults')].content = NoMatchesOutput

\* C29: before the last attempt, the step in which edit_file fails because
\* the text to replace is absent, or occurs more than once, and the step
\* in which code_search finds no match, push the hint message of that case
\* and request a correction from the model.
C29_ToolSpecificHints ==
    [][/\ pc = "EXECUTING_TOOLS" /\ toolCalls[idx].function.name = "edit_file" =>
            /\ NonFinalFailure(ErrTextAbsent) =>
                   HintPushed(ErrTextAbsent, TextAbsentHint)
            /\ NonFinalFailure(ErrTextNotUnique) =>
                   HintPushed(ErrTextNotUnique, TextNotUniqueHint)
       /\ NoMatchStep /\ attempts < maxAttempts =>
            HintPushed(NoMatchesOutput, NoMatchesHint)]_vars

\* -------------------------------------------------------------------- C30
\* C30: a step in which the read of a line fails, and a step in which the
\* line read is blank, leave the transcript as it is, send nothing to the
\* model and leave the session at its prompt, ready for the next line.
C30_BadInputIgnored ==
    [][AskQuestionRejects \/ BlankLine =>
         /\ conversation' = conversation
         /\ lastRequest' = lastRequest
         /\ nSend' = nSend /\ turns' = turns
         /\ AtPrompt' /\ ~shouldExit'
         /\ ~SessionOver']_vars

\* ------------------------------------- chatStream, chunked tool-call protocol
\* Fragments of tool calls as they stand in delta.tool_calls.  A fragment
\* may lack its index, its id and its function, and a function may lack
\* its name and its arguments; ids and names are strings ("" when empty),
\* arguments are texts.
HeaderFragment(index, id, name) ==
    [index |-> index, id |-> id, function |-> [name |-> name]]
ArgumentsFragment(index, arguments) ==
    [index |-> index, function |-> [arguments |-> arguments]]

\* fragments that open a tool call, rename it, give it another id, carry
\* an empty id and name, or carry a piece of its arguments
IndexedFragments ==
    UNION {{HeaderFragment(index, "c1", "read_file"),
            HeaderFragment(index, "", "bash"),
            HeaderFragment(index, "c2", ""),
            [index |-> index, id |-> "", function |-> [name |-> "", arguments |-> <<>>]],
            ArgumentsFragment(index, <<"a">>),
            ArgumentsFragment(index, <<"b">>)} : index \in {0, 1}}

\* a fragment without an index
UnindexedFragment ==
    [id |-> "c1", function |-> [name |-> "read_file", arguments |-> <<"a">>]]

\* parsed.choices[0].delta: content, or fragments of one or of two tool calls
Deltas ==
    {[content |-> <<"a">>]} \cup
    {[tool_calls |-> <<f>>] : f \in IndexedFragments \cup {UnindexedFragment}} \cup
    {[tool_calls |-> <<f, g>>] :
        f \in {ArgumentsFragment(0, <<"a">>)},
        g \in {ArgumentsFragment(1, <<"b">>), HeaderFragment(1, "c2", "bash")}}

\* the entry the while loop pushes to extend currentToolCalls
EmptyToolCall ==
    [id |-> "", type |-> "function", function |-> [name |-> "", arguments |-> <<>>]]

\* the truthy id, name and arguments of a fragment ("" and <<>> when the
\* fragment has none or an empty one)
IdOf(toolCall) == IF "id" \in DOMAIN toolCall THEN toolCall.id ELSE ""
NameOf(toolCall) ==
    IF "function" \in DOMAIN toolCall /\ "name" \in DOMAIN toolCall.function
    THEN toolCall.function.name ELSE ""
ArgumentsOf(toolCall) ==
    IF "function" \in DOMAIN toolCall /\ "arguments" \in DOMAIN toolCall.function
    THEN toolCall.function.arguments ELSE <<>>

UpdateToolCall_overwrites(existing, toolCall) ==
    [id |-> IdOf(toolCall),
     type |-> existing.type,
     function |-> [name |-> NameOf(toolCall),
                   arguments |-> existing.function.arguments \o ArgumentsOf(toolCall)]]

\* the update of currentToolCalls[toolCall.index]
UpdateToolCall(existing, toolCall) ==
    [id |-> IF IdOf(toolCall) # "" THEN IdOf(toolCall) ELSE existing.id,
     type |-> existing.type,
     function |->
        [name |-> IF NameOf(toolCall) # "" THEN NameOf(toolCall)
                  ELSE existing.function.name,
         arguments |-> existing.function.arguments \o ArgumentsOf(toolCall)]]

\* the body of `for (const toolCall of delta.tool_calls)`: a fragment
\* without index is passed over; else the array is extended with empty
\* entries up to the index and the entry at the index is updated
AccumulateToolCall(current, toolCall) ==
    IF "index" \notin DOMAIN toolCall THEN current
    ELSE LET missing == IF toolCall.index + 1 > Len(current)
                        THEN toolCall.index + 1 - Len(current) ELSE 0
             extended == current \o [k \in 1..missing |-> EmptyToolCall]
         IN  [extended EXCEPT ![toolCall.index + 1] = UpdateToolCall(@, toolCall)]

RECURSIVE AccumulateToolCalls(_, _)
AccumulateToolCalls(current, fragments) ==
    IF fragments = <<>> THEN current
    ELSE AccumulateToolCalls(AccumulateToolCall(current, Head(fragments)),
                             Tail(fragments))

\* a chatStream call of the chunked protocol: the deltas received, the
\* generator's locals and what it yielded
NewChunkedStream ==
    [deltas |-> <<>>, currentContent |-> <<>>, currentToolCalls |-> <<>>,
     yielded |-> <<>>]

\* one `data: ` line with a delta: content and tool-call fragments are
\* accumulated and the message is yielded
HandleDelta(st, delta) ==
    LET content == IF "content" \in DOMAIN delta THEN delta.content ELSE <<>>
        fragments == IF "tool_calls" \in DOMAIN delta THEN delta.tool_calls ELSE <<>>
        st1 == [st EXCEPT !.deltas = Append(@, delta),
                          !.currentContent = @ \o content,
                          !.currentToolCalls = AccumulateToolCalls(@, fragments)]
    IN  IF content # <<>> \/ "tool_calls" \in DOMAIN delta
        THEN [st1 EXCEPT !.yielded = Append(@, StreamMessage(st1))]
        ELSE st1

DeltaArrives ==
    /\ pc = "CHUNKED"
    /\ Len(stream.deltas) < MaxDeltas
    /\ \E delta \in Deltas : stream' = HandleDelta(stream, delta)
    /\ UNCHANGED <<conversation, pc, LoopLocals, lastRequest, History, turns,
                   shouldExit, returned, nSend, file, console>>

\* the line `data: [DONE]`: what was accumulated is yielded once more and
\* the generator returns
DoneArrives ==
    /\ pc = "CHUNKED"
    /\ stream' = IF stream.currentContent # <<>> \/ Len(stream.currentToolCalls) > 0
                 THEN [stream EXCEPT !.yielded = Append(@, StreamMessage(stream))]
                 ELSE stream
    /\ pc' = "STREAM_DONE"
    /\ UNCHANGED <<conversation, LoopLocals, lastRequest, History, turns,
                   shouldExit, returned, nSend, file, console>>

\* the response ends without `data: [DONE]`: the generator returns and
\* yields nothing more
ChunkedStreamEnds ==
    /\ pc = "CHUNKED"
    /\ pc' = "STREAM_DONE"
    /\ UNCHANGED <<conversation, LoopLocals, lastRequest, History, turns,
                   shouldExit, stream, returned, nSend, file, console>>

\* the connection breaks: chatStream throws 'Streaming error: ...'
ChunkedStreamFails ==
    /\ pc = "CHUNKED"
    /\ pc' = "STREAM_FAILED"
    /\ UNCHANGED <<conversation, LoopLocals, lastRequest, History, turns,
                   shouldExit, stream, returned, nSend, file, console>>

InitChunked ==
    /\ conversation = <<>>
    /\ pc = "CHUNKED"
    /\ toolCalls = <<>>
    /\ idx = 0
    /\ attempts = 0
    /\ toolResults = <<>>
    /\ correction = <<>>
    /\ lastRequest = <<>>
    /\ calls = <<>>
    /\ nextId = 1
    /\ turns = 0
    /\ nFail = 0
    /\ nTransportFail = 0
    /\ shouldExit = FALSE
    /\ stream = NewChunkedStream
    /\ returned = [op |-> "none"]
    /\ nSend = 0
    /\ file = NoFile
    /\ console = <<>>

NextChunked ==
    \/ DeltaArrives
    \/ DoneArrives
    \/ ChunkedStreamEnds
    \/ ChunkedStreamFails

SpecChunked == InitChunked /\ [][NextChunked]_vars

\* -------------------------------------------------------------------- C26
\* the fragments received so far, in arrival order, and those among them
\* that were declared with `index`
FragmentsReceived(st) ==
    Flatten([k \in 1..Len(st.deltas) |->
               IF "tool_calls" \in DOMAIN st.deltas[k]
               THEN st.deltas[k].tool_calls ELSE <<>>])
FragmentsAt(st, index) ==
    SelectSeq(FragmentsReceived(st),
              LAMBDA f : "index" \in DOMAIN f /\ f.index = index)

\* the last text of `texts` that is not empty ("" when there is none)
LatestNonEmpty(texts) ==
    LET set == {k \in 1..Len(texts) : texts[k] # ""}
    IN  IF set = {} THEN ""
        ELSE texts[CHOOSE k \in set : \A j \in set : j <= k]

\* C26: after every sequence of deltas, the tool call accumulated at index
\* i has as arguments the concatenation, in arrival order, of the arguments
\* of the fragments declared with index i, whatever fragments of other
\* indexes or without index came between them; its id and its name are
\* those of the latest such fragment that had a non-empty one (empty when
\* none had); and there are entries exactly up to the highest index seen.
C26_FragmentsAccumulatedByIndex ==
    pc \in {"CHUNKED", "STREAM_DONE"} =>
        /\ \A i \in 1..Len(stream.currentToolCalls) :
              LET fragments == FragmentsAt(stream, i - 1)
                  accumulated == stream.currentToolCalls[i]
              IN  /\ accumulated.function.arguments =
                        Flatten([k \in 1..Len(fragments) |-> ArgumentsOf(fragments[k])])
                  /\ accumulated.id =
                        LatestNonEmpty([k \in 1..Len(fragments) |-> IdOf(fragments[k])])
                  /\ accumulated.function.name =
                        LatestNonEmpty([k \in 1..Len(fragments) |-> NameOf(fragments[k])])
        /\ \A index \in {0, 1} :
              FragmentsAt(stream, index) # <<>> => Len(stream.currentToolCalls) > index
        /\ Len(stream.currentToolCalls) > 0 =>
              FragmentsAt(stream, Len(stream.currentToolCalls) - 1) # <<>>

\* the tool call at index 0 was opened with id and name, then got a piece
\* of its arguments together with a fragment of index 1, then a fragment
\* with an empty id and name
C26_Witness ==
    /\ pc = "CHUNKED"
    /\ Len(stream.currentToolCalls) = 2
    /\ Len(stream.deltas) = 3
    /\ stream.currentToolCalls[1].id = "c1"
    /\ stream.currentToolCalls[1].function.name = "read_file"
    /\ stream.currentToolCalls[1].function.arguments = <<"a">>
    /\ stream.currentToolCalls[2].function.arguments = <<"b">>
    /\ LET last == FragmentsAt(stream, 0)[Len(FragmentsAt(stream, 0))]
       IN  "id" \in DOMAIN last /\ last.id = ""

\* ------------------------------------------------------------ edit_file
\* Files and the strings of an edit are sequences of characters; "LF" is
\* the line feed.
RECURSIVE Strings(_, _)
Strings(chars, n) ==
    IF n = 0 THEN {<<>>}
    ELSE LET shorter == Strings(chars, n - 1)
         IN  shorter \cup {Append(t, c) : t \in shorter, c \in chars}

FileContents == Strings({"a", "b", "LF"}, MaxContent)
OldStrings == Strings({"a", "b", "LF"}, MaxOldString)
NewStrings == {<<>>, <<"c">>}

\* String.prototype.indexOf(sub, from), 0-based, -1 when there is none
indexOf(s, sub, from) ==
    LET found == {i \in from..(Len(s) - Len(sub)) :
                     \A j \in 1..Len(sub) : s[i + j] = sub[j]}
    IN  IF found = {} THEN -1
        ELSE CHOOSE i \in found : \A k \in found : i <= k

\* the while loop that counts old_string in content: each search starts
\* one character after the place found before
RECURSIVE CountFrom(_, _, _)
CountFrom(content, old_string, searchIndex) ==
    LET foundIndex == indexOf(content, old_string, searchIndex)
    IN  IF foundIndex = -1 THEN 0
        ELSE 1 + CountFrom(content, old_string, foundIndex + 1)

\* content.split('\n')
RECURSIVE split(_)
split(content) ==
    LET lf == indexOf(content, <<"LF">>, 0)
    IN  IF lf = -1 THEN <<content>>
        ELSE <<SubSeq(content, 1, lf)>> \o
             split(SubSeq(content, lf + 2, Len(content)))

\* the lines of content that hold old_string
MatchingLines(content, old_string) ==
    LET lines == split(content)
    IN  {i \in 1..Len(lines) : indexOf(lines[i], old_string, 0) # -1}

\* content.replace(old_string, new_string): the first occurrence
replace(content, old_string, new_string) ==
    LET at == indexOf(content, old_string, 0)
    IN  IF at = -1 THEN content
        ELSE SubSeq(content, 1, at) \o new_string \o
             SubSeq(content, at + Len(old_string) + 1, Len(content))

\* fileEditorTool.function up to the write: the content to write, or the
\* error thrown.  More than one occurrence is an error only when more than
\* one line holds old_string.
editFile(content, old_string, new_string) ==
    IF content = NoFile
    THEN IF old_string # <<>>
         THEN [error |-> "For new files, old_string must be empty"]
         ELSE [newContent |-> new_string]
    ELSE IF old_string = <<>>
    THEN [error |-> "Cannot replace empty string in existing file"]
    ELSE LET oldStringCount == CountFrom(content, old_string, 0) IN
         IF oldStringCount = 0
         THEN [error |-> "was not found in the file"]
         ELSE IF oldStringCount > 1 /\
                 Cardinality(MatchingLines(content, old_string)) > 1
         THEN [error |-> "appears more than once in the file"]
         ELSE [newContent |-> replace(content, old_string, new_string)]

\* executeTool calls edit_file: it writes newContent and returns, or it
\* throws and writes nothing (readFileSync and writeFileSync may throw
\* EACCES as well)
EditFile ==
    /\ pc = "EDITING"
    /\ \E old_string \in OldStrings, new_string \in NewStrings,
          denied \in BOOLEAN :
         LET args == [old_string |-> old_string, new_string |-> new_string]
             edit == editFile(file, old_string, new_string)
         IN  IF denied
             THEN /\ returned' = [op |-> "edit_file", content |-> file, args |-> args,
                                  error |-> "Permission denied editing file"]
                  /\ file' = file
             ELSE IF "error" \in DOMAIN edit
             THEN /\ returned' = [op |-> "edit_file", content |-> file, args |-> args,
                                  error |-> edit.error]
                  /\ file' = file
             ELSE /\ returned' = [op |-> "edit_file", content |-> file, args |-> args,
                                  value |-> "Successfully"]
                  /\ file' = edit.newContent
    /\ pc' = "EDITED"
    /\ UNCHANGED <<conversation, LoopLocals, lastRequest, History, turns,
                   shouldExit, stream, nSend, console>>

\* the next edit_file call
EditAgain ==
    /\ pc = "EDITED"
    /\ file # NoFile
    /\ Len(file) <= MaxContent
    /\ pc' = "EDITING"
    /\ returned' = [op |-> "none"]
    /\ UNCHANGED <<conversation, LoopLocals, lastRequest, History, turns,
                   shouldExit, stream, nSend, file, console>>

InitEdit ==
    /\ conversation = <<>>
    /\ pc = "EDITING"
    /\ toolCalls = <<>>
    /\ idx = 0
    /\ attempts = 0
    /\ toolResults = <<>>
    /\ correction = <<>>
    /\ lastRequest = <<>>
    /\ calls = <<>>
    /\ nextId = 1
    /\ turns = 0
    /\ nFail = 0
    /\ nTransportFail = 0
    /\ shouldExit = FALSE
    /\ stream = NewStream(<<>>, <<>>)
    /\ returned = [op |-> "none"]
    /\ nSend = 0
    /\ file \in FileContents \cup {NoFile}
    /\ console = <<>>

NextEdit ==
    \/ EditFile
    \/ EditAgain

SpecEdit == InitEdit /\ [][NextEdit]_vars

\* -------------------------------------------------------------------- C31
\* the places of content where old_string stands
Occurrences(content, old_string) ==
    {i \in 0..(Len(content) - Len(old_string)) :
        SubSeq(content, i + 1, i + Len(old_string)) = old_string}

EditedExisting == returned.op = "edit_file" /\ returned.content # NoFile
Wrote == "value" \in DOMAIN returned

\* C31: an edit_file call on an existing file wrote the file only if
\* old_string is not empty and stands at exactly one place of the content;
\* when it stands at no place or at more than one, the call failed and the
\* file is as it was.
C31_WritesOnlyUniqueMatch ==
    (pc = "EDITED" /\ EditedExisting) =>
        LET n == Cardinality(Occurrences(returned.content, returned.args.old_string))
        IN  /\ Wrote => returned.args.old_string # <<>> /\ n = 1
            /\ (returned.args.old_string = <<>> \/ n # 1) =>
                  /\ "error" \in DOMAIN returned
                  /\ file = returned.content

\* ------------------------------------ the control flow of processMessage
\* One processMessage call with everything its branches read: the latest
\* response's tool calls, the position of the for loop, the attempts of the
\* while loop and the results collected.  The transcript only grows and no
\* branch reads it, so its pushes are left out here and `conversation`
\* stays as it is when the turn's first request is made; the endpoint may
\* answer with tool calls as often as it likes.

\* the end of one pass of the for loop: toolResults.push(result), then the
\* next tool call, or after the last one the next request of while (true)
LoopRecord(result) ==
    /\ toolResults' = Append(toolResults, result)
    /\ correction' = <<>>
    /\ IF idx < Len(toolCalls)
       THEN /\ idx' = idx + 1
            /\ attempts' = 1
            /\ pc' = "EXECUTING_TOOLS"
       ELSE /\ pc' = "AWAITING_MODEL"
            /\ UNCHANGED <<idx, attempts>>

\* the main client.chat call returns: without tool calls the loop breaks
LoopResponds ==
    /\ pc = "AWAITING_MODEL"
    /\ \E fcs \in FunctionCallSeqs :
         LET response == parseGeminiResponse(TextThenCalls(<<"answer">>, fcs), 1) IN
         IF NoToolCalls(response)
         THEN /\ pc' = "DONE"
              /\ DropLoopLocals
         ELSE /\ toolCalls' = response.toolCalls
              /\ idx' = 1
              /\ attempts' = 1
              /\ toolResults' = <<>>
              /\ correction' = <<>>
              /\ pc' = "EXECUTING_TOOLS"
    /\ UNCHANGED <<conversation, lastRequest, History, turns, shouldExit, stream,
                   returned, nSend, file, console>>

\* a client.chat call throws: caught at the end of processMessage
LoopRequestFails ==
    /\ pc \in {"AWAITING_MODEL", "AWAITING_CORRECTION"}
    /\ pc' = "ABORTED"
    /\ DropLoopLocals
    /\ UNCHANGED <<conversation, lastRequest, History, turns, shouldExit, stream,
                   returned, nSend, file, console>>

\* executeTool returns: result is set and the while loop breaks
LoopToolReturns ==
    /\ pc = "EXECUTING_TOOLS"
    /\ ToolRegistered(toolCalls[idx].function.name)
    /\ \E output \in ToolOutputs : LoopRecord(executeTool(toolCalls[idx], output))
    /\ UNCHANGED <<conversation, toolCalls, lastRequest, History, turns, shouldExit,
                   stream, returned, nSend, file, console>>

LoopRetry_keepsAttempts(toolCall, error) ==
    IF getErrorContext(error, toolCall) # <<>>
    THEN /\ pc' = "AWAITING_CORRECTION"
         /\ UNCHANGED <<idx, attempts, toolResults, correction>>
    ELSE /\ attempts' = attempts
         /\ correction' = <<>>
         /\ UNCHANGED <<pc, idx, toolResults>>

\* the catch block before the last attempt: with a hint the model is asked
\* for a correction, without one `while (attempts < maxAttempts)` goes on
\* and attempts++ starts the next attempt
LoopRetry(toolCall, error) ==
    IF getErrorContext(error, toolCall) # <<>>
    THEN /\ pc' = "AWAITING_CORRECTION"
         /\ UNCHANGED <<idx, attempts, toolResults, correction>>
    ELSE /\ attempts' = attempts + 1
         /\ correction' = <<>>
         /\ UNCHANGED <<pc, idx, toolResults>>

\* executeTool throws: on the last attempt the error result is recorded
LoopToolThrows ==
    /\ pc = "EXECUTING_TOOLS"
    /\ \E error \in Throwable(toolCalls[idx]) :
         IF attempts = maxAttempts
         THEN LoopRecord(FinalFailureResult(toolCalls[idx], error))
         ELSE LoopRetry(toolCalls[idx], error)
    /\ UNCHANGED <<conversation, toolCalls, lastRequest, History, turns, shouldExit,
                   stream, returned, nSend, file, console>>

\* the self-correction client.chat call returns: the while loop goes on
\* with toolCalls[idx]
LoopCorrectionResponds ==
    /\ pc = "AWAITING_CORRECTION"
    /\ \E fcs \in CorrectionCalls :
         LET correctionResponse == parseGeminiResponse(TextThenCalls(<<"answer">>, fcs), 1) IN
         correction' = IF HasToolCalls(correctionResponse)
                       THEN correctionResponse.toolCalls ELSE <<>>
    /\ attempts' = attempts + 1
    /\ pc' = "EXECUTING_TOOLS"
    /\ UNCHANGED <<conversation, toolCalls, idx, toolResults, lastRequest, History,
                   turns, shouldExit, stream, returned, nSend, file, console>>

\* processMessage('hi') made its first request
InitRounds ==
    /\ conversation = <<SystemMessage, UserMessage(<<"hi">>)>>
    /\ pc = "AWAITING_MODEL"
    /\ toolCalls = <<>>
    /\ idx = 0
    /\ attempts = 0
    /\ toolResults = <<>>
    /\ correction = <<>>
    /\ lastRequest = getLimitedConversation(conversation)
    /\ calls = <<>>
    /\ nextId = 1
    /\ turns = 1
    /\ nFail = 0
    /\ nTransportFail = 0
    /\ shouldExit = FALSE
    /\ stream = NewStream(<<>>, <<>>)
    /\ returned = [op |-> "none"]
    /\ nSend = 0
    /\ file = NoFile
    /\ console = <<>>

NextRounds ==
    \/ LoopResponds
    \/ LoopRequestFails
    \/ LoopToolReturns
    \/ LoopToolThrows
    \/ LoopCorrectionResponds

\* every transport call and every tool invocation returns or throws: no
\* await stays pending
EveryCallSettles ==
    /\ WF_vars(LoopResponds \/ LoopRequestFails)
    /\ WF_vars(LoopToolReturns \/ LoopToolThrows)
    /\ WF_vars(LoopCorrectionResponds \/ LoopRequestFails)

SpecRounds == InitRounds /\ [][NextRounds]_vars /\ EveryCallSettles

\* -------------------------------------------------------------------- C32
\* C32 as stated: when every call returns, every turn ends, whatever the
\* model answers.
C32_EveryTurnEnds ==
    (pc = "AWAITING_MODEL") ~> (pc \in {"DONE", "ABORTED"})

\* C32: when every call returns, every round of tool executions ends: no
\* tool call is attempted more than maxAttempts times, so the loop comes
\* to its next model request (or the turn is aborted by a failed request);
\* the turn itself ends only when a response carries no tool calls.
C32_EveryRoundEnds ==
    /\ [](attempts <= maxAttempts)
    /\ (pc = "EXECUTING_TOOLS") ~> (pc \in {"AWAITING_MODEL", "ABORTED"})
    /\ [][pc' = "DONE" => LoopResponds]_vars

\* a round is over whose second tool call took all three attempts
C32_Witness ==
    /\ pc = "AWAITING_MODEL"
    /\ Len(toolCalls) = 2
    /\ Len(toolResults) = 2
    /\ attempts = maxAttempts
    /\ "is_error" \in DOMAIN toolResults[2]

\* -------------------------------------------------------------------- C33
\* the message with tool calls at position j is followed by a tool-result
\* message that holds one result for each of its tool calls
Answered(j) ==
    \E k \in ToolResultMessages :
        /\ k > j
        /\ Len(conversation[k].toolResults) = Len(conversation[j].toolCalls)
        /\ \A i \in 1..Len(conversation[j].toolCalls) :
              conversation[k].toolResults[i].tool_call_id = conversation[j].toolCalls[i].id

\* the round of the message at position j was cut short: a self-correction
\* request for one of its tool calls failed
CutShort(j) ==
    \E i \in 1..Len(conversation[j].toolCalls) :
        calls[conversation[j].toolCalls[i].id].lost # 0

\* the messages pushed in the latest turn: those behind the last user message
InLatestTurn(j) ==
    \E u \in Positions :
        /\ conversation[u].role = "user"
        /\ u < j
        /\ \A v \in Positions : v > u => conversation[v].role # "user"

\* C33 as stated: at the end of every turn, DONE or aborted, every message
\* with tool calls is followed by a tool-result message with one result
\* for each of its tool calls.
C33_EveryCallMessageAnswered ==
    pc \in {"DONE", "ABORTED"} => \A j \in ToolCallMessages : Answered(j)

\* C33, amended: at the end of every turn, a message with tool calls is
\* followed by its tool-result message exactly when its round was not cut
\* short by a failed self-correction request; a turn that reaches DONE has
\* every message with tool calls that it pushed answered, and a message
\* left unanswered by an aborted turn stays unanswered.
C33_AnsweredUnlessCutShort ==
    pc \in {"DONE", "ABORTED"} =>
        /\ \A j \in ToolCallMessages : Answered(j) <=> ~CutShort(j)
        /\ pc = "DONE" => \A j \in ToolCallMessages : InLatestTurn(j) => Answered(j)

\* a second turn is done and has its tool call answered, while the tool
\* call of the first turn, aborted by a failed self-correction request,
\* has no result
C33_Witness ==
    /\ pc = "DONE"
    /\ \E j, k \in ToolCallMessages :
         /\ j < k
         /\ CutShort(j) /\ ~Answered(j) /\ ~InLatestTurn(j)
         /\ InLatestTurn(k) /\ Answered(k)

\* -------------------------------------------------------------------- C34
\* the tool-result message at position k of the messages `window` has the
\* message that carries its tool calls before it in `window`
CallsInWindow(window, k) ==
    \E j \in 1..(k - 1) :
        /\ HasToolCalls(window[j])
        /\ Len(window[j].toolCalls) = Len(window[k].toolResults)
        /\ \A i \in 1..Len(window[k].toolResults) :
              window[j].toolCalls[i].id = window[k].toolResults[i].tool_call_id

WindowResults(window) == {k \in 1..Len(window) : HasToolResults(window[k])}

\* C34 as stated: every window sent to the model holds, for each of its
\* tool-result messages, the message with the matching tool calls.
C34_WindowSelfContained ==
    \A k \in WindowResults(lastRequest) : CallsInWindow(lastRequest, k)

\* C34, amended: a tool-result message of a window lacks its tool-call
\* message only when the transcript was cut (the window has maxMessages
\* messages and the transcript more) and the cut fell inside that round:
\* between the system message and the tool-result message the window then
\* holds nothing but hints of the round.  Windows of transcripts of at most
\* maxMessages messages are self-contained.
C34_OnlyCutRoundLacksCalls ==
    \A k \in WindowResults(lastRequest) :
        \/ CallsInWindow(lastRequest, k)
        \/ /\ Len(lastRequest) = maxMessages
           /\ Len(conversation) > maxMessages
           /\ \A m \in 2..(k - 1) : IsHint(lastRequest[m])

\* the window of a request begins, behind the system message, with a
\* tool-result message whose tool-call message was cut away
C34_Witness ==
    /\ pc = "AWAITING_MODEL"
    /\ Len(conversation) > maxMessages
    /\ lastRequest = getLimitedConversation(conversation)
    /\ HasToolResults(lastRequest[2])
    /\ ~CallsInWindow(lastRequest, 2)

\* -------------------------------------------------------------------- C35
\* the for loop is at a tool call that names no tool of the registry
UnknownToolAttempt ==
    /\ pc = "EXECUTING_TOOLS"
    /\ ~ToolRegistered(toolCalls[idx].function.name)

\* issued tool calls that name no tool of the registry
UnknownIds == {id \in IssuedCalls : ~ToolRegistered(IssuedCall(id).function.name)}

\* C35: a tool call that names an unregistered tool fails as a tool does
\* and never ends the turn: each of its attempts ends with the lookup
\* error 'Tool ... not found' and no tool function returns for it; the
\* first two failures push nothing, request nothing and lead to the next
\* attempt; the third records a result with is_error = true and the call's
\* id, after which the for loop goes on to the next tool call, or, after
\* the last one, pushes the tool-result message and requests the model's
\* next message.
C35_UnknownToolIsToolFailure ==
    /\ [][UnknownToolAttempt =>
            LET toolCall == toolCalls[idx]
                notFound == ToolNotFoundError(toolCall.function.name)
            IN
            /\ calls'[toolCall.id].errs = Append(calls[toolCall.id].errs, notFound)
            /\ ~calls'[toolCall.id].ok
            /\ pc' \notin {"ABORTED", "AWAITING_CORRECTION", "DONE"}
            /\ toolCalls' = toolCalls
            /\ IF attempts < maxAttempts
               THEN /\ attempts' = attempts + 1
                    /\ UNCHANGED <<pc, idx, toolResults, conversation, lastRequest>>
               ELSE /\ Len(toolResults') = Len(toolResults) + 1
                    /\ SubSeq(toolResults', 1, Len(toolResults)) = toolResults
                    /\ LET r == toolResults'[Len(toolResults')] IN
                         /\ r.tool_call_id = toolCall.id
                         /\ IsErrorResult(r)
                         /\ includes(r.content, notFound)
                    /\ IF idx < Len(toolCalls)
                       THEN /\ idx' = idx + 1
                            /\ attempts' = 1
                            /\ pc' = "EXECUTING_TOOLS"
                            /\ conversation' = conversation
                       ELSE /\ pc' = "AWAITING_MODEL"
                            /\ conversation' =
                                  Append(conversation, ToolResultsMessage(toolResults'))]_vars
    /\ [](\A id \in UnknownIds :
            /\ ~calls[id].ok
            /\ Len(calls[id].errs) <= maxAttempts
            /\ calls[id].hints = 0
            /\ calls[id].corr = 0
            /\ Current(id) => attempts = Len(calls[id].errs) + 1)

\* the first tool call of a response named an unregistered tool and failed
\* three times, the second was processed and succeeded, and the tool-result
\* message holds both results
C35_Witness ==
    \E k \in ToolResultMessages :
        LET results == conversation[k].toolResults IN
        /\ Len(results) = 2
        /\ results[1].tool_call_id \in UnknownIds
        /\ IsErrorResult(results[1])
        /\ Len(calls[results[1].tool_call_id].errs) = maxAttempts
        /\ results[2].tool_call_id \notin UnknownIds
        /\ calls[results[2].tool_call_id].ok

\* -------------------------------------------------------------------- C36
\* how often the goodbye message was printed
Goodbyes == Cardinality({i \in 1..Len(console) : console[i] = Goodbye})

\* C36: when the session is over, by exit or quit, by the input closing or
\* by a signal, the goodbye message has been printed exactly once.
C36_GoodbyeExactlyOnce ==
    pc \in {"ENDED", "KILLED"} => Goodbyes = 1

\* -------------------------------------------------------------------- C37
\* The messages a chatStream call has yielded, as their holder finds them
\* now.  `yielded` keeps each message as it was at its yield.  The content
\* of a message is a string, a value; its toolCalls property, set by
\* `message.toolCalls = currentToolCalls`, is the generator's one array,
\* so it shows what the array holds at present.
HeldMessages(st) ==
    [i \in 1..Len(st.yielded) |->
        IF "toolCalls" \in DOMAIN st.yielded[i]
        THEN [st.yielded[i] EXCEPT !.toolCalls = st.currentToolCalls]
        ELSE st.yielded[i]]

\* C37: a yielded message is a snapshot: whatever the stream processes
\* after the yield, the content and the tool calls (their number, ids,
\* names and arguments) of the message its holder has are those it had
\* when it was yielded.
C37_YieldedIsSnapshot ==
    HeldMessages(stream) = stream.yielded
====
